---- MODULE Spec2Model ----
(***************************************************************************)
(* A model of go.uber.org/config: the YAML deep-merger                     *)
(* (internal/merge/merge.go) and the YAML provider with its value handles  *)
(* (config.go).                                                            *)
(*                                                                         *)
(* A YAML value unmarshalled into interface{} is one of four things; the   *)
(* model writes them as records tagged by category:                        *)
(*   nil                         [cat |-> "null"]                          *)
(*   a scalar                    [cat |-> "scalar",   v |-> s]             *)
(*   []interface{}               [cat |-> "sequence", elems |-> <<...>>]   *)
(*   map[interface{}]interface{} [cat |-> "mapping",  m |-> [k |-> tree]]  *)
(* A mapping's m is a function whose domain is the set of keys present.    *)
(***************************************************************************)
EXTENDS Integers, Sequences, FiniteSets, TLC

VARIABLES
    pc,        \* what the caller has done so far
    strict,    \* config.strict: FALSE once the Permissive option is applied
    sources,   \* config.sources: the sources handed to NewYAML, lowest priority first
    y,         \* the *YAML that NewYAML returned
    err,       \* the error the last call returned, "none" when it returned nil
    nread,     \* how many of the sources the last merge has read
    v,         \* the Value handle the caller holds
    defaults,  \* the defaults the caller has passed to WithDefault, first call first
    target,    \* the destination the caller populates from the handle v
    target2,   \* a second destination, populated from one source after the other
    perr,      \* the errors the Populate calls returned, first call first
    lookup,    \* the lookup given to Expand, "nil" when the option is not given
    held,      \* what the caller holds of the last Value() call
    cache,     \* cachedProvider.cache: the values cached, by key
    rlock,     \* the goroutines that hold the cached provider's read lock
    wlock,     \* the goroutine that holds its write lock, 0 for none
    calls,     \* how often the underlying provider's Get was called, by key
    gets,      \* each goroutine's call of cachedProvider.Get
    inserted,  \* the keys for which an insert has completed
    overlap,   \* whether two calls of cachedProvider.Get ever overlapped
    input,     \* the bytes of the reader the expander is run over
    rd,        \* the transform.Reader that runs the expander over input
    got,       \* the bytes the caller has read from rd
    prov,      \* the provider the decoder asks for values
    dtype,     \* the type of the destination Value.Populate is given
    dval,      \* the destination, when it holds no pointer
    heap,      \* the nodes the destination is made of, by address
    dm,        \* decoder.m: the comparable values the decoder has visited
    stack,     \* the calls of valueStruct under way, the innermost last
    call,      \* the call of decoder.unmarshal about to run
    derr,      \* the error Value.Populate returned
    dpc        \* where Value.Populate is: "idle", "running", "done", "overflow"

\* The cached provider and its callers.
cacheVars == <<cache, rlock, wlock, calls, gets, inserted, overlap>>

\* The reader that runs the expander, and what was read from it.
readerVars == <<input, rd, got>>

\* The decoder, its provider and its destination.
decoderVars == <<prov, dtype, dval, heap, dm, stack, call, derr, dpc>>

vars == <<pc, strict, sources, y, err, nread, v, defaults, target, target2, perr,
          lookup, held, cacheVars, readerVars, decoderVars>>

---------------------------------------------------------------------------
(* Tree values *)

Null == [cat |-> "null"]

Scalar(s) == [cat |-> "scalar", v |-> s]

Sequence(es) == [cat |-> "sequence", elems |-> es]

Mapping(f) == [cat |-> "mapping", m |-> f]

\* The empty function: the contents of an empty mapping.
EmptyFcn == [k \in {} |-> Null]

---------------------------------------------------------------------------
(* internal/merge/merge.go *)

isMapping(i) == i.cat = "mapping"

isSequence(i) == i.cat = "sequence"

isScalar(i) == ~isMapping(i) /\ ~isSequence(i)

\* Go's merged[k] on a map: the zero value (nil) when k is not a key.
Index(f, k) == IF k \in DOMAIN f THEN f[k] ELSE Null

\* merge and mergeMapping return (value, error); err is "none" or "merge",
\* and on an error the value is nil.
Ok(val) == [err |-> "none", val |-> val]

MergeError == [err |-> "merge", val |-> Null]

RECURSIVE merge(_, _, _)

\* A mergeMapping that stores from[k] without merging it into merged[k].
mergeMappingShallow(intoM, fromM, isStrict) ==
    Ok(Mapping([k \in DOMAIN intoM.m \cup DOMAIN fromM.m |->
        IF k \in DOMAIN fromM.m THEN fromM.m[k] ELSE intoM.m[k]]))

\* mergeMapping copies into, then stores merge(merged[k], from[k]) at every
\* key of from, and returns the first error. No key is merged twice, so the
\* order Go ranges over from does not change the mapping returned.
mergeMapping(intoM, fromM, isStrict) ==
    LET each == [k \in DOMAIN fromM.m |->
                    merge(Index(intoM.m, k), fromM.m[k], isStrict)]
    IN  IF \E k \in DOMAIN each : each[k].err # "none"
        THEN MergeError
        ELSE Ok(Mapping([k \in DOMAIN intoM.m \cup DOMAIN fromM.m |->
                IF k \in DOMAIN fromM.m THEN each[k].val ELSE intoM.m[k]]))

\* A merge in which a nil from leaves the lower-priority value in place.
mergeSkipsNil(i, f, isStrict) ==
    IF i = Null THEN Ok(f)
    ELSE IF f = Null THEN Ok(i)
    ELSE IF isScalar(i) /\ isScalar(f) THEN Ok(f)
    ELSE IF isSequence(i) /\ isSequence(f) THEN Ok(f)
    ELSE IF isMapping(i) /\ isMapping(f) THEN mergeMapping(i, f, isStrict)
    ELSE IF ~isStrict THEN Ok(f)
    ELSE MergeError

\* A merge that appends the higher-priority sequence to the lower one.
mergeAppendsSequences(i, f, isStrict) ==
    IF i = Null THEN Ok(f)
    ELSE IF f = Null THEN Ok(Null)
    ELSE IF isScalar(i) /\ isScalar(f) THEN Ok(f)
    ELSE IF isSequence(i) /\ isSequence(f) THEN Ok(Sequence(i.elems \o f.elems))
    ELSE IF isMapping(i) /\ isMapping(f) THEN mergeMapping(i, f, isStrict)
    ELSE IF ~isStrict THEN Ok(f)
    ELSE MergeError

\* A merge that ignores mismatches in strict mode too.
mergeIgnoresStrict(i, f, isStrict) ==
    IF i = Null THEN Ok(f)
    ELSE IF f = Null THEN Ok(Null)
    ELSE IF isScalar(i) /\ isScalar(f) THEN Ok(f)
    ELSE IF isSequence(i) /\ isSequence(f) THEN Ok(f)
    ELSE IF isMapping(i) /\ isMapping(f) THEN mergeMapping(i, f, isStrict)
    ELSE Ok(f)

\* A merge that, when not strict, takes the higher-priority value before it
\* looks at the categories.
mergePermissiveFirst(i, f, isStrict) ==
    IF i = Null THEN Ok(f)
    ELSE IF f = Null THEN Ok(Null)
    ELSE IF ~isStrict THEN Ok(f)
    ELSE IF isScalar(i) /\ isScalar(f) THEN Ok(f)
    ELSE IF isSequence(i) /\ isSequence(f) THEN Ok(f)
    ELSE IF isMapping(i) /\ isMapping(f) THEN mergeMapping(i, f, isStrict)
    ELSE MergeError

\* merge(into, from, strict).
merge(i, f, isStrict) ==
    IF i = Null THEN Ok(f)
    ELSE IF f = Null THEN Ok(Null)
    ELSE IF isScalar(i) /\ isScalar(f) THEN Ok(f)
    ELSE IF isSequence(i) /\ isSequence(f) THEN Ok(f)
    ELSE IF isMapping(i) /\ isMapping(f) THEN mergeMapping(i, f, isStrict)
    ELSE IF ~isStrict THEN Ok(f)
    ELSE MergeError

---------------------------------------------------------------------------
(* YAML documents: what a source's bytes hold, as gopkg.in/yaml.v2 reads it *)

\* A source with no content: empty, or nothing but comments.
EmptyDoc == [kind |-> "empty"]

\* Bytes that are not YAML.
InvalidDoc == [kind |-> "invalid"]

\* A well-formed document. dup says that some mapping of the text sets a key
\* twice; tree is the value a permissive decoder reads (later settings win).
Doc(t, dup) == [kind |-> "yaml", tree |-> t, dup |-> dup]

\* yaml.NewEncoder(buf).Encode(val): the encoder writes every key once.
Encode(val) == Doc(val, FALSE)

\* Decode as if a source without content held a null.
DecodeEmptyAsNull(doc, isStrict) ==
    IF doc.kind = "empty" THEN [err |-> "none", val |-> Null]
    ELSE IF doc.kind = "invalid" THEN [err |-> "decode", val |-> Null]
    ELSE IF isStrict /\ doc.dup THEN [err |-> "decode", val |-> Null]
    ELSE [err |-> "none", val |-> doc.tree]

\* d := yaml.NewDecoder(r); d.SetStrict(strict); d.Decode(&contents).
\* err is "eof" (io.EOF: no document), "decode" or "none".
Decode(doc, isStrict) ==
    IF doc.kind = "empty" THEN [err |-> "eof", val |-> Null]
    ELSE IF doc.kind = "invalid" THEN [err |-> "decode", val |-> Null]
    ELSE IF doc.dup /\ isStrict THEN [err |-> "decode", val |-> Null]
    ELSE [err |-> "none", val |-> doc.tree]

---------------------------------------------------------------------------
(* merge.YAML, internal/merge/merge.go *)

\* A loop that merges what was merged so far into each new source, so
\* that earlier sources win.
RECURSIVE YAMLFromEarlierWins(_, _, _, _, _)
YAMLFromEarlierWins(srcs, i, merged, hasContent, isStrict) ==
    IF i > Len(srcs)
    THEN [err |-> "none",
          buf |-> IF hasContent THEN Encode(merged) ELSE EmptyDoc,
          read |-> Len(srcs)]
    ELSE LET d == Decode(srcs[i], isStrict) IN
         IF d.err = "eof"
         THEN YAMLFromEarlierWins(srcs, i + 1, merged, hasContent, isStrict)
         ELSE IF d.err # "none"
         THEN [err |-> "decode", buf |-> EmptyDoc, read |-> i]
         ELSE LET pair == merge(d.val, merged, isStrict) IN
              IF pair.err # "none"
              THEN [err |-> "merge", buf |-> EmptyDoc, read |-> i]
              ELSE YAMLFromEarlierWins(srcs, i + 1, pair.val, TRUE, isStrict)

\* The loop of merge.YAML from source i on, with the locals merged and
\* hasContent. Returns (buf, err) and read, the number of sources decoded.
RECURSIVE YAMLFrom(_, _, _, _, _)
YAMLFrom(srcs, i, merged, hasContent, isStrict) ==
    IF i > Len(srcs)
    THEN [err |-> "none",
          buf |-> IF hasContent THEN Encode(merged) ELSE EmptyDoc,
          read |-> Len(srcs)]
    ELSE LET d == Decode(srcs[i], isStrict) IN
         IF d.err = "eof"
         THEN YAMLFrom(srcs, i + 1, merged, hasContent, isStrict)
         ELSE IF d.err # "none"
         THEN [err |-> "decode", buf |-> EmptyDoc, read |-> i]
         ELSE LET pair == merge(merged, d.val, isStrict) IN
              IF pair.err # "none"
              THEN [err |-> "merge", buf |-> EmptyDoc, read |-> i]
              ELSE YAMLFrom(srcs, i + 1, pair.val, TRUE, isStrict)

YAML(srcs, isStrict) == YAMLFrom(srcs, 1, Null, FALSE, isStrict)

---------------------------------------------------------------------------
(* The expander: the transformer newExpandTransformer(lookup) returns and  *)
(* escapeVariables. A byte string is a sequence of one-character strings.  *)

\* A lookup function is named by what it finds: "none" finds no name,
\* "all" finds every name, "onlyA" finds the name A. "nil" is no lookup.
Lookups == {"none", "all", "onlyA"}

\* lookup(name): (value, found).
Lookup(l, name) ==
    IF l = "all" THEN [found |-> TRUE, value |-> <<"e">>]
    ELSE IF l = "onlyA" /\ name = <<"A">>
    THEN [found |-> TRUE, value |-> <<"$", "A">>]
    ELSE [found |-> FALSE, value |-> <<>>]

\* The first character of a shell name: a letter or an underscore.
IsNameStart(c) == c \in {"A", "B", "_"}

\* A character of a shell name: a letter, a digit or an underscore.
IsNameChar(c) == c \in {"A", "B", "_", "1"}

\* The least index of c in s from index from on, 0 if there is none.
FirstIndex(s, c, from) ==
    LET is == {i \in from..Len(s) : s[i] = c}
    IN  IF is = {} THEN 0 ELSE CHOOSE i \in is : \A j \in is : i <= j

\* The index of the last character of the name that starts at s[2].
NameEnd(s) ==
    CHOOSE e \in 2..Len(s) :
        /\ \A i \in 2..e : IsNameChar(s[i])
        /\ e < Len(s) => ~IsNameChar(s[e + 1])

\* What a step of the transformer does.
Emit(out, n, looked) ==
    [kind |-> "emit", out |-> out, n |-> n, err |-> "none", looked |-> looked]

NeedMore ==
    [kind |-> "short", out |-> <<>>, n |-> 0, err |-> "none", looked |-> <<>>]

Fail(e, looked) ==
    [kind |-> "error", out |-> <<>>, n |-> 0, err |-> e, looked |-> looked]

\* The greatest index of c in s, 0 if there is none.
LastIndex(s, c) ==
    LET is == {i \in 1..Len(s) : s[i] = c}
    IN  IF is = {} THEN 0 ELSE CHOOSE i \in is : \A j \in is : j <= i

\* ${KEY:DEFAULT} with KEY up to the last colon.
BracketedLastColon(body, n, l) ==
    LET colon == LastIndex(body, ":")
        key == IF colon = 0 THEN body ELSE SubSeq(body, 1, colon - 1)
        def == IF colon = 0 THEN <<>> ELSE SubSeq(body, colon + 1, Len(body))
        r == Lookup(l, key)
    IN  IF r.found THEN Emit(r.value, n, <<key>>)
        ELSE IF def = <<>> THEN Fail("EmptyDefault", <<key>>)
        ELSE IF def = <<"\"", "\"">> THEN Emit(<<>>, n, <<key>>)
        ELSE Emit(def, n, <<key>>)

\* ${KEY:DEFAULT}, body being the bytes between the braces and n the
\* length of the whole reference.
Bracketed(body, n, l) ==
    LET colon == FirstIndex(body, ":", 1)
        key == IF colon = 0 THEN body ELSE SubSeq(body, 1, colon - 1)
        def == IF colon = 0 THEN <<>> ELSE SubSeq(body, colon + 1, Len(body))
        r == Lookup(l, key)
    IN  IF r.found THEN Emit(r.value, n, <<key>>)
        ELSE IF def = <<>> THEN Fail("EmptyDefault", <<key>>)
        ELSE IF def = <<"\"", "\"">> THEN Emit(<<>>, n, <<key>>)
        ELSE Emit(def, n, <<key>>)

\* $NAME at the head of src, with a name that is not found replaced by
\* nothing.
NamedOrNothing(src, atEOF, l) ==
    LET e == NameEnd(src)
        name == SubSeq(src, 2, e)
        r == Lookup(l, name)
    IN  IF e = Len(src) /\ ~atEOF THEN NeedMore
        ELSE IF r.found THEN Emit(r.value, e, <<name>>)
        ELSE Emit(<<>>, e, <<name>>)

\* $NAME at the head of src: the name's value, or need-more-input when
\* the name may go on in the next chunk.
Named(src, atEOF, l) ==
    LET e == NameEnd(src)
        name == SubSeq(src, 2, e)
        r == Lookup(l, name)
    IN  IF e = Len(src) /\ ~atEOF THEN NeedMore
        ELSE IF r.found THEN Emit(r.value, e, <<name>>)
        ELSE Fail("UndefinedVariable", <<name>>)

\* ${ at the head of src: the bracketed reference up to the first closing
\* brace; without one, need-more-input, and at the end of the input the
\* dollar sign is kept.
Braced(src, atEOF, l) ==
    LET close == FirstIndex(src, "}", 3) IN
    IF close = 0
    THEN IF atEOF THEN Emit(<<"$">>, 1, <<>>) ELSE NeedMore
    ELSE Bracketed(SubSeq(src, 3, close - 1), close, l)

\* A step that keeps both dollar signs of $$.
StepKeepsPairs(src, atEOF, l) ==
    IF src[1] # "$" THEN Emit(<<src[1]>>, 1, <<>>)
    ELSE IF Len(src) = 1
    THEN IF atEOF THEN Emit(<<"$">>, 1, <<>>) ELSE NeedMore
    ELSE IF src[2] = "$" THEN Emit(<<"$", "$">>, 2, <<>>)
    ELSE IF src[2] = "{" THEN Braced(src, atEOF, l)
    ELSE IF IsNameStart(src[2]) THEN Named(src, atEOF, l)
    ELSE Emit(<<"$">>, 1, <<>>)

\* One step of the transformer on the non-empty input src, of which atEOF
\* tells whether it is the end of the input: the bytes emitted and the
\* number of bytes consumed, or need-more-input when the input ends inside
\* what may be a reference, or an error.
Step(src, atEOF, l) ==
    IF src[1] # "$" THEN Emit(<<src[1]>>, 1, <<>>)
    ELSE IF Len(src) = 1
    THEN IF atEOF THEN Emit(<<"$">>, 1, <<>>) ELSE NeedMore
    ELSE IF src[2] = "$" THEN Emit(<<"$">>, 2, <<>>)
    ELSE IF src[2] = "{" THEN Braced(src, atEOF, l)
    ELSE IF IsNameStart(src[2]) THEN Named(src, atEOF, l)
    ELSE Emit(<<"$">>, 1, <<>>)

\* Transform(dst, src, atEOF): steps over src until it is consumed, more
\* input is needed or a step fails. out is what was written, n the number
\* of bytes of src consumed, looked the names looked up.
RECURSIVE TransformFrom(_, _, _, _, _)
TransformFrom(src, atEOF, l, out, looked) ==
    IF src = <<>>
    THEN [err |-> "none", out |-> out, rest |-> <<>>, looked |-> looked]
    ELSE LET st == Step(src, atEOF, l) IN
         IF st.kind = "short"
         THEN [err |-> "none", out |-> out, rest |-> src, looked |-> looked]
         ELSE IF st.kind = "error"
         THEN [err |-> st.err, out |-> out, rest |-> src,
               looked |-> looked \o st.looked]
         ELSE TransformFrom(SubSeq(src, st.n + 1, Len(src)), atEOF, l,
                            out \o st.out, looked \o st.looked)

\* Transform that takes every chunk for the last.
TransformAsLast(src, atEOF, l) == TransformFrom(src, TRUE, l, <<>>, <<>>)

Transform(src, atEOF, l) == TransformFrom(src, atEOF, l, <<>>, <<>>)

\* The whole input read through the transformer in one piece.
Expand(s, l) == Transform(s, TRUE, l)

\* escapeVariables that leaves its input as it is.
escapeNothing(s) == s

\* escapeVariables: every $ is doubled.
RECURSIVE escapeVariables(_)
escapeVariables(s) ==
    IF s = <<>> THEN <<>>
    ELSE (IF Head(s) = "$" THEN <<"$", "$">> ELSE <<Head(s)>>)
            \o escapeVariables(Tail(s))

---------------------------------------------------------------------------
(* transform.NewReader(r, newExpandTransformer(lookup)): the expander run  *)
(* over a reader that hands out its bytes in chunks.                       *)

\* The sizes of the buffer the caller reads into: one byte, and more than
\* any output here.
ReadSizes == {1, 11}

\* A new reader over the input s, read by a caller whose buffer holds p
\* bytes. src is the input read and not yet consumed, fed the number of
\* bytes read from the input, dst the output not yet handed to the caller,
\* eof whether the input has reported its end, short whether the last
\* Transform asked for more input, complete whether transforming is over,
\* err the error it ended with, names the names looked up, fills the number
\* of reads of the input. orig is the input as it was before escaping,
\* escaped whether it has been escaped.
NewReader(s, p) ==
    [src |-> <<>>, fed |-> 0, dst |-> <<>>, eof |-> FALSE, short |-> FALSE,
     complete |-> FALSE, err |-> "none", names |-> <<>>, fills |-> 0,
     p |-> p, orig |-> s, escaped |-> FALSE]

\* No expander is run.
ReaderInit ==
    /\ input = <<>>
    /\ rd = NewReader(<<>>, 11)
    /\ got = <<>>

\* The underlying reader's Read: k more bytes of the input, and whether it
\* reports the end of the input with them.
Fill(k, eof) ==
    /\ rd.dst = <<>> /\ ~rd.complete /\ ~rd.eof
    /\ rd.src = <<>> \/ rd.short
    /\ k \in 0..(Len(input) - rd.fed)
    /\ k = 0 => eof
    /\ eof => k = Len(input) - rd.fed
    /\ rd' = [rd EXCEPT !.src = @ \o SubSeq(input, rd.fed + 1, rd.fed + k),
                        !.fed = @ + k, !.eof = eof, !.short = FALSE,
                        !.fills = @ + 1]
    /\ UNCHANGED <<input, got>>

\* One call of Transform on the input read so far.
Xform ==
    /\ rd.dst = <<>> /\ ~rd.complete /\ ~rd.short
    /\ rd.src # <<>> \/ rd.eof
    /\ LET r == Transform(rd.src, rd.eof, lookup)
           isShort == r.err = "none" /\ r.rest # <<>>
       IN  rd' = [rd EXCEPT
                    !.dst = r.out,
                    !.src = r.rest,
                    !.names = @ \o r.looked,
                    !.short = isShort /\ ~rd.eof,
                    !.complete = r.err # "none" \/ rd.eof,
                    !.err = IF r.err # "none" THEN r.err
                            ELSE IF isShort /\ rd.eof THEN "ErrShortSrc"
                            ELSE "none"]
    /\ UNCHANGED <<input, got>>

\* The caller's Read: up to p bytes of the output.
Copy ==
    /\ rd.dst # <<>>
    /\ LET n == IF Len(rd.dst) < rd.p THEN Len(rd.dst) ELSE rd.p IN
        /\ got' = got \o SubSeq(rd.dst, 1, n)
        /\ rd' = [rd EXCEPT !.dst = SubSeq(rd.dst, n + 1, Len(rd.dst))]
    /\ UNCHANGED input

\* The caller has read everything: Read returns 0 bytes and rd.err.
Finished == rd.complete /\ rd.dst = <<>>

\* escapeVariables is applied to the input before it is read.
Escape ==
    /\ ~rd.escaped /\ rd.fed = 0 /\ ~rd.eof
    /\ input' = escapeVariables(input)
    /\ rd' = [rd EXCEPT !.escaped = TRUE]
    /\ UNCHANGED got

---------------------------------------------------------------------------
(* The YAML provider, config.go *)

\* Root, the key of the whole configuration: the empty string. A key is
\* written as the sequence of its period-separated segments, which is what
\* strings.Split(key, _separator) returns; Split of "" is one empty segment.
Root == <<"">>

\* The *YAML NewYAML and withDefault build.
Provider(raw, contents, isStrict, empty) ==
    [raw |-> raw, contents |-> contents, strict |-> isStrict, empty |-> empty]

\* No provider: what a failed constructor returns.
NoProvider == Provider(<<>>, Null, TRUE, TRUE)

\* The second half of NewYAML and of withDefault: decode the merged buffer
\* into the new provider's contents; io.EOF marks the provider empty.
FromMerged(raw, merged, isStrict) ==
    IF merged.err # "none"
    THEN [err |-> merged.err, y |-> NoProvider, read |-> merged.read]
    ELSE LET d == Decode(merged.buf, isStrict) IN
         IF d.err = "eof"
         THEN [err |-> "none", y |-> Provider(raw, Null, isStrict, TRUE),
               read |-> merged.read]
         ELSE IF d.err # "none"
         THEN [err |-> d.err, y |-> NoProvider, read |-> merged.read]
         ELSE [err |-> "none", y |-> Provider(raw, d.val, isStrict, FALSE),
               read |-> merged.read]

\* The text of an expanded scalar as the decoder reads it: no text is null.
Reparse(text) == IF text = <<>> THEN Null ELSE Scalar(text)

\* The keys in the order the encoder writes them.
KeyOrder == <<"a", "b", "c", "d">>

\* A scalar read through the transformer, r being what the transformer
\* made of its text.
ExpandedScalar(r) ==
    IF r.err # "none" THEN [err |-> r.err, val |-> Null]
    ELSE [err |-> "none", val |-> Reparse(r.out)]

\* A sequence read through the transformer, each[i] being what the
\* transformer made of element i. The error is that of the first element
\* that fails.
ExpandedSequence(each) ==
    LET bad == {i \in DOMAIN each : each[i].err # "none"} IN
    IF bad # {}
    THEN [err |-> each[CHOOSE i \in bad : \A j \in bad : i <= j].err,
          val |-> Null]
    ELSE [err |-> "none", val |-> Sequence([i \in DOMAIN each |-> each[i].out])]

\* A mapping read through the transformer, each[k] being what the
\* transformer made of the value at k. The error is that of the first
\* value that fails, in the order the keys are written.
ExpandedMapping(each) ==
    LET bad == {i \in 1..Len(KeyOrder) :
                    /\ KeyOrder[i] \in DOMAIN each
                    /\ each[KeyOrder[i]].err # "none"}
    IN  IF bad # {}
        THEN [err |-> each[KeyOrder[CHOOSE i \in bad : \A j \in bad : i <= j]].err,
              val |-> Null]
        ELSE [err |-> "none", val |-> Mapping([k \in DOMAIN each |-> each[k].val])]

\* The merged buffer read through the transformer: every scalar of the
\* tree is expanded. The error is that of the first scalar that fails.
RECURSIVE ExpandTree(_, _)
ExpandTree(t, l) ==
    IF t.cat = "null" THEN [err |-> "none", val |-> Null]
    ELSE IF t.cat = "scalar" THEN ExpandedScalar(Expand(t.v, l))
    ELSE IF t.cat = "sequence"
    THEN ExpandedSequence([i \in 1..Len(t.elems) |-> Expand(t.elems[i], l)])
    ELSE ExpandedMapping([k \in DOMAIN t.m |-> ExpandTree(t.m[k], l)])

\* ioutil.ReadAll(transform.NewReader(merged, newExpandTransformer(l))):
\* an empty buffer stays empty.
ExpandDoc(doc, l) ==
    IF doc.kind # "yaml" THEN [err |-> "none", doc |-> doc]
    ELSE LET r == ExpandTree(doc.tree, l) IN
         [err |-> r.err, doc |-> Doc(r.val, doc.dup)]

\* NewYAML with the options Source(srcs[1]), ..., Permissive() unless
\* isStrict, and Expand(l) unless l is "nil".
NewYAMLWith(srcs, isStrict, l) ==
    LET merged == YAML(srcs, isStrict) IN
    IF merged.err # "none" \/ l = "nil"
    THEN FromMerged(srcs, merged, isStrict)
    ELSE LET exp == ExpandDoc(merged.buf, l) IN
         IF exp.err # "none"
         THEN [err |-> exp.err, y |-> NoProvider, read |-> merged.read]
         ELSE FromMerged(srcs, [merged EXCEPT !.buf = exp.doc], isStrict)

\* NewYAML with the options Source(srcs[1]), ..., and Permissive() unless
\* isStrict. No Expand option is given.
NewYAMLOf(srcs, isStrict) == NewYAMLWith(srcs, isStrict, "nil")

\* YAML.get: the one-segment path Root becomes the nil path.
get(p, path) ==
    [path |-> IF Len(path) = 1 /\ path[1] = Root[1] THEN <<>> ELSE path,
     provider |-> p]

\* The loop of YAML.at: walk cur down the segments of path.
RECURSIVE Walk(_, _)
Walk(cur, path) ==
    IF path = <<>> THEN [found |-> TRUE, val |-> cur]
    ELSE IF ~isMapping(cur) THEN [found |-> FALSE, val |-> Null]
    ELSE IF Head(path) \notin DOMAIN cur.m THEN [found |-> FALSE, val |-> Null]
    ELSE Walk(cur.m[Head(path)], Tail(path))

\* at as if an explicit null were no value.
atNullMissing(p, path) ==
    IF p.empty \/ Walk(p.contents, path).val = Null
    THEN [found |-> FALSE, val |-> Null]
    ELSE Walk(p.contents, path)

\* YAML.at.
at(p, path) ==
    IF p.empty THEN [found |-> FALSE, val |-> Null]
    ELSE Walk(p.contents, path)

\* Value.HasValue.
HasValue(val) == at(val.provider, val.path).found

\* The loop of Value.WithDefault: wrap d in one single-key map per segment
\* of the path, innermost segment first.
RECURSIVE Wrap(_, _)
Wrap(path, d) ==
    IF path = <<>> THEN d
    ELSE Mapping([k \in {Head(path)} |-> Wrap(Tail(path), d)])

\* withDefault as if the default were merged above the retained sources.
withDefaultOnTop(p, d) ==
    LET srcs == p.raw \o <<Encode(d)>>
    IN  FromMerged(srcs, YAML(srcs, p.strict), p.strict)

\* withDefault as if it did not retain the default among the raw sources.
withDefaultNotRetained(p, d) ==
    LET srcs == <<Encode(d)>> \o p.raw
    IN  FromMerged(p.raw, YAML(srcs, p.strict), p.strict)

\* withDefault as if it merged the merged contents, not the raw sources,
\* into the default.
withDefaultFillsMissing(p, d) ==
    LET srcs == <<Encode(d)>> \o p.raw
        cur == IF p.empty THEN <<Encode(d)>>
               ELSE <<Encode(d), Encode(p.contents)>>
    IN  FromMerged(srcs, YAML(cur, p.strict), p.strict)

\* YAML.withDefault: the default becomes the lowest-priority source and all
\* the retained sources are merged again.
withDefault(p, d) ==
    LET srcs == <<Encode(d)>> \o p.raw
    IN  FromMerged(srcs, YAML(srcs, p.strict), p.strict)

---------------------------------------------------------------------------
(* Populate, config.go: the destinations and how a tree is decoded into one *)

\* A destination is a Go value of a fixed type: a string, a []string, or a
\* struct whose yaml field names are the domain of fields.
StringDest(str) == [kind |-> "string", val |-> str]

\* isNil tells a nil slice from an empty one.
SliceDest(isNil, es) == [kind |-> "slice", isNil |-> isNil, elems |-> es]

StructDest(fs) == [kind |-> "struct", fields |-> fs]

\* An interface{} destination holds whatever tree was decoded into it, as
\* the i of Value.Value does; Null is the nil interface.
IfaceDest(t) == [kind |-> "iface", tree |-> t]

\* No destination declared yet.
NoDest == [kind |-> "none"]

\* The zero value of the destination's type.
RECURSIVE Zero(_)
Zero(dest) ==
    IF dest.kind = "string" THEN StringDest("")
    ELSE IF dest.kind = "slice" THEN SliceDest(TRUE, <<>>)
    ELSE IF dest.kind = "iface" THEN IfaceDest(Null)
    ELSE IF dest.kind = "struct"
    THEN StructDest([k \in DOMAIN dest.fields |-> Zero(dest.fields[k])])
    ELSE dest

\* decodeInto as if a mapping were decoded into a fresh struct: the fields
\* the mapping has no key for are zeroed.
RECURSIVE decodeIntoFresh(_, _, _)
decodeIntoFresh(node, dest, isStrict) ==
    IF node = Null THEN [err |-> FALSE, dest |-> Zero(dest)]
    ELSE IF dest.kind = "iface" THEN [err |-> FALSE, dest |-> IfaceDest(node)]
    ELSE IF dest.kind = "string"
    THEN IF node.cat = "scalar"
         THEN [err |-> FALSE, dest |-> StringDest(node.v)]
         ELSE [err |-> TRUE, dest |-> dest]
    ELSE IF dest.kind = "slice"
    THEN IF node.cat = "sequence"
         THEN [err |-> FALSE, dest |-> SliceDest(FALSE, node.elems)]
         ELSE [err |-> TRUE, dest |-> dest]
    ELSE IF node.cat = "mapping"
    THEN LET each == [k \in DOMAIN node.m \cap DOMAIN dest.fields |->
                        decodeIntoFresh(node.m[k], dest.fields[k], isStrict)]
         IN  [err |-> \/ \E k \in DOMAIN each : each[k].err
                      \/ isStrict /\ DOMAIN node.m \ DOMAIN dest.fields # {},
              dest |-> StructDest([k \in DOMAIN dest.fields |->
                          IF k \in DOMAIN each THEN each[k].dest
                          ELSE Zero(dest.fields[k])])]
    ELSE [err |-> TRUE, dest |-> dest]

\* dec.Decode(i) on the document holding node, into the destination dest:
\* (the destination afterwards, whether an error was returned). A null
\* zeroes the destination. An interface{} takes the tree as it is, in
\* place of what it held. An existing struct is deep-merged: a field is
\* decoded into only if the mapping has its key, and in strict mode a key
\* without a field is an error. A node that does not fit the type is an
\* error and leaves that part as it was; the rest is still decoded.
RECURSIVE decodeInto(_, _, _)
decodeInto(node, dest, isStrict) ==
    IF node = Null THEN [err |-> FALSE, dest |-> Zero(dest)]
    ELSE IF dest.kind = "iface" THEN [err |-> FALSE, dest |-> IfaceDest(node)]
    ELSE IF dest.kind = "string"
    THEN IF node.cat = "scalar"
         THEN [err |-> FALSE, dest |-> StringDest(node.v)]
         ELSE [err |-> TRUE, dest |-> dest]
    ELSE IF dest.kind = "slice"
    THEN IF node.cat = "sequence"
         THEN [err |-> FALSE, dest |-> SliceDest(FALSE, node.elems)]
         ELSE [err |-> TRUE, dest |-> dest]
    ELSE IF node.cat = "mapping"
    THEN LET each == [k \in DOMAIN node.m \cap DOMAIN dest.fields |->
                        decodeInto(node.m[k], dest.fields[k], isStrict)]
         IN  [err |-> \/ \E k \in DOMAIN each : each[k].err
                      \/ isStrict /\ DOMAIN node.m \ DOMAIN dest.fields # {},
              dest |-> StructDest([k \in DOMAIN dest.fields |->
                          IF k \in DOMAIN each THEN each[k].dest
                          ELSE dest.fields[k]])]
    ELSE [err |-> TRUE, dest |-> dest]

\* YAML.populate: nothing is done when the path has no value; otherwise
\* the value found is encoded and decoded into the destination.
populate(p, path, dest) ==
    LET val == at(p, path) IN
    IF ~val.found THEN [err |-> FALSE, dest |-> dest]
    ELSE decodeInto(Encode(val.val).tree, dest, p.strict)

\* Value.Value: Populate into a nil interface{}, which stays nil when the
\* path has no value and otherwise holds the tree found there.
Value(val) ==
    LET found == at(val.provider, val.path) IN
    IF found.found THEN Decode(Encode(found.val), val.provider.strict).val
    ELSE Null

\* What the caller holds after i := val.Value(): the handle read, the tree
\* returned, the tree as the caller has it now, and whether its storage is
\* the provider's own. Value goes through populate, which decodes the
\* encoded bytes of the tree into new storage.
ValueHeldShared(val) ==
    [set |-> TRUE, path |-> val.path, prov |-> val.provider,
     read |-> Value(val), now |-> Value(val), shared |-> TRUE]

ValueHeld(val) ==
    [set |-> TRUE, path |-> val.path, prov |-> val.provider,
     read |-> Value(val), now |-> Value(val), shared |-> FALSE]

\* Nothing held.
NoHeld ==
    [set |-> FALSE, path |-> <<>>, prov |-> NoProvider,
     read |-> Null, now |-> Null, shared |-> FALSE]

\* The tree cur with t stored at path.
RECURSIVE StoreAt(_, _, _)
StoreAt(cur, path, t) ==
    IF path = <<>> THEN t
    ELSE Mapping([k \in DOMAIN cur.m |->
            IF k = Head(path) THEN StoreAt(cur.m[k], Tail(path), t)
            ELSE cur.m[k]])

\* The provider p after the caller wrote t through what it holds: p is
\* the provider read from and the storage is shared, or p is untouched.
Written(p, h, t) ==
    IF h.shared /\ p = h.prov /\ at(p, h.path).found
    THEN [p EXCEPT !.contents = StoreAt(p.contents, h.path, t)]
    ELSE p

---------------------------------------------------------------------------
(* The cached provider, cache_provider.go *)

\* The goroutines that call the cached provider.
Procs == {1, 2}

\* The keys they ask for.
CacheKeys == {"k1", "k2"}

\* The most calls of Get one goroutine makes.
MaxGets == 2

\* The keys at which the underlying provider has a value.
FoundKeys == {"k1"}

\* p.Provider.Get(key): the underlying provider's value for key.
Underlying(key) ==
    [path |-> <<key>>, provider |-> "underlying", found |-> key \in FoundKeys]

\* No value: a goroutine's v before it is assigned.
NoCached == [path |-> <<>>, provider |-> "none", found |-> FALSE]

\* A goroutine outside Get: line is where it stands, n how many calls it
\* has made, key and ret the key and the result of its last call, late
\* whether that call began after an insert for its key had completed.
Idle ==
    [line |-> "idle", key |-> "", v |-> NoCached, ret |-> NoCached, n |-> 0,
     late |-> FALSE]

\* p.cache[key] = val, as if nothing were stored.
StoredNothing(c, key, val) == c

\* p.cache[key] = val
Stored(c, key, val) ==
    [k \in DOMAIN c \cup {key} |-> IF k = key THEN val ELSE c[k]]

\* NewCachedProvider(p): an empty cache, no lock held.
CacheInit ==
    /\ cache = [k \in {} |-> NoCached]
    /\ rlock = {}
    /\ wlock = 0
    /\ calls = [k \in CacheKeys |-> 0]
    /\ gets = [i \in Procs |-> Idle]
    /\ inserted = {}
    /\ overlap = FALSE

\* Goroutine i calls p.Get(key).
CacheGet(i, key) ==
    /\ gets[i].line = "idle"
    /\ gets[i].n < MaxGets
    /\ gets' = [gets EXCEPT ![i] = [line |-> "rlock", key |-> key, v |-> NoCached,
                                    ret |-> NoCached, n |-> gets[i].n + 1,
                                    late |-> key \in inserted]]
    /\ overlap' = (overlap \/ \E j \in Procs \ {i} : gets[j].line # "idle")
    /\ UNCHANGED <<cache, rlock, wlock, calls, inserted>>

\* p.RLock()
CacheRLock(i) ==
    /\ gets[i].line = "rlock"
    /\ wlock = 0
    /\ rlock' = rlock \cup {i}
    /\ gets' = [gets EXCEPT ![i].line = "check"]
    /\ UNCHANGED <<cache, wlock, calls, inserted, overlap>>

\* v, ok := p.cache[key]
CacheCheck(i) ==
    /\ gets[i].line = "check"
    /\ gets' = [gets EXCEPT ![i] =
                  IF gets[i].key \in DOMAIN cache
                  THEN [@ EXCEPT !.line = "hit", !.v = cache[gets[i].key]]
                  ELSE [@ EXCEPT !.line = "miss"]]
    /\ UNCHANGED <<cache, rlock, wlock, calls, inserted, overlap>>

\* A miss that keeps the read guard.
CacheRUnlockKept(i) ==
    /\ gets[i].line \in {"hit", "miss"}
    /\ rlock' = IF gets[i].line = "hit" THEN rlock \ {i} ELSE rlock
    /\ gets' = [gets EXCEPT ![i] =
                  IF gets[i].line = "hit"
                  THEN [@ EXCEPT !.line = "idle", !.ret = gets[i].v]
                  ELSE [@ EXCEPT !.line = "call"]]
    /\ UNCHANGED <<cache, wlock, calls, inserted, overlap>>

\* p.RUnlock(), and on a hit return v
CacheRUnlock(i) ==
    /\ gets[i].line \in {"hit", "miss"}
    /\ rlock' = rlock \ {i}
    /\ gets' = [gets EXCEPT ![i] =
                  IF gets[i].line = "hit"
                  THEN [@ EXCEPT !.line = "idle", !.ret = gets[i].v]
                  ELSE [@ EXCEPT !.line = "call"]]
    /\ UNCHANGED <<cache, wlock, calls, inserted, overlap>>

\* v := p.Provider.Get(key); v.provider = p
CacheCall(i) ==
    /\ gets[i].line = "call"
    /\ calls' = [calls EXCEPT ![gets[i].key] = @ + 1]
    /\ gets' = [gets EXCEPT ![i].line = "lock",
                            ![i].v = [Underlying(gets[i].key) EXCEPT !.provider = "cached"]]
    /\ UNCHANGED <<cache, rlock, wlock, inserted, overlap>>

\* p.Lock()
CacheLock(i) ==
    /\ gets[i].line = "lock"
    /\ wlock = 0 /\ rlock = {}
    /\ wlock' = i
    /\ gets' = [gets EXCEPT ![i].line = "insert"]
    /\ UNCHANGED <<cache, rlock, calls, inserted, overlap>>

\* p.cache[key] = v
CacheInsert(i) ==
    /\ gets[i].line = "insert"
    /\ cache' = Stored(cache, gets[i].key, gets[i].v)
    /\ inserted' = inserted \cup {gets[i].key}
    /\ gets' = [gets EXCEPT ![i].line = "unlock"]
    /\ UNCHANGED <<rlock, wlock, calls, overlap>>

\* p.Unlock(); return v
CacheUnlock(i) ==
    /\ gets[i].line = "unlock"
    /\ wlock' = 0
    /\ gets' = [gets EXCEPT ![i].line = "idle", ![i].ret = gets[i].v]
    /\ UNCHANGED <<cache, rlock, calls, inserted, overlap>>

---------------------------------------------------------------------------
(* Value.Populate of the providers behind the Provider interface: the      *)
(* decoder that asks a provider for the value at each key of the           *)
(* destination. A key is the sequence of its period-separated segments.    *)

\* What a provider's Value holds: an interface{}.
GoNil == [go |-> "nil"]

GoInt(n) == [go |-> "int", n |-> n]

GoString(s) == [go |-> "string", s |-> s]

GoSlice(es) == [go |-> "slice", es |-> es]

GoMap(f) == [go |-> "map", m |-> f]

\* A struct value, such as the one the provider of TestLoops returns.
GoStruct == [go |-> "struct"]

\* reflect.ValueOf(val).Kind(): Invalid for nil.
reflectKind(val) == IF val = GoNil THEN "invalid" ELSE val.go

\* The decimal digits.
Digits == <<"0", "1", "2", "3", "4", "5", "6", "7", "8", "9">>

\* strconv.Itoa(n) for the indices probed.
Itoa(n) == Digits[n + 1]

\* The index a segment spells, -1 if it spells none.
Atoi(s) ==
    IF \E i \in 1..Len(Digits) : Digits[i] = s
    THEN (CHOOSE i \in 1..Len(Digits) : Digits[i] = s) - 1
    ELSE -1

\* NewValue(provider, key, value, found)
NewValue(value, found) == [value |-> value, found |-> found]

NotFound == NewValue(GoNil, FALSE)

\* The value reached from val along path: a segment is a key of a map and
\* an index of a slice.
RECURSIVE Within(_, _)
Within(val, path) ==
    IF path = <<>> THEN NewValue(val, TRUE)
    ELSE IF val.go = "map" /\ Head(path) \in DOMAIN val.m
    THEN Within(val.m[Head(path)], Tail(path))
    ELSE IF val.go = "slice" /\ Atoi(Head(path)) \in 0..(Len(val.es) - 1)
    THEN Within(val.es[Atoi(Head(path)) + 1], Tail(path))
    ELSE NotFound

\* The key under which the providers of the slice and map tests hold their
\* value.
NativeKey == <<"a">>

\* A provider: one that finds a value at every key (all, the provider of
\* TestLoops), or one that holds a struct at each key of keys, the value
\* native at NativeKey, and the value over[i] at the key NativeKey.i for
\* each i of its domain.
OldProvider(all, keys, native, over) ==
    [all |-> all, keys |-> keys, native |-> native, over |-> over]

\* Provider.Get(key).
ProviderGet(p, key) ==
    IF p.all \/ key \in p.keys THEN NewValue(GoStruct, TRUE)
    ELSE IF Len(key) = 0 \/ SubSeq(key, 1, 1) # NativeKey THEN NotFound
    ELSE IF Len(key) = 1 THEN p.native
    ELSE IF key[2] \in DOMAIN p.over
    THEN Within(p.over[key[2]], SubSeq(key, 3, Len(key)))
    ELSE IF p.native.found THEN Within(p.native.value, Tail(key))
    ELSE NotFound

\* The types of the destinations that hold no pointer.
PlainTypes == {"int", "[]int", "[][]int", "map[string]int", "map[string][]int"}

\* reflect.Type.Kind()
Kind(t) ==
    IF t = "int" THEN "int"
    ELSE IF t \in {"[]int", "[][]int"} THEN "slice"
    ELSE IF t \in {"map[string]int", "map[string][]int"} THEN "map"
    ELSE "struct"

\* reflect.Type.Elem()
Elem(t) ==
    IF t \in {"[]int", "map[string]int"} THEN "int"
    ELSE "[]int"

\* A slice value and a map value; an int is the integer.
SliceVal(isNil, es) == [isNil |-> isNil, elems |-> es]

MapVal(isNil, f) == [isNil |-> isNil, m |-> f]

\* reflect.Zero(t)
reflectZero(t) ==
    IF Kind(t) = "int" THEN 0
    ELSE IF Kind(t) = "slice" THEN SliceVal(TRUE, <<>>)
    ELSE MapVal(TRUE, <<>>)

\* An error: its kind and the keys it was wrapped with, the last wrapping
\* first. NoError is nil.
NoError == [kind |-> "nil", keys |-> <<>>]

NewError(kind) == [kind |-> kind, keys |-> <<>>]

\* errorWithKey(err, key): errors.Wrap returns nil for nil.
errorWithKey(e, key) ==
    IF e = NoError THEN NoError
    ELSE [e EXCEPT !.keys = <<key>> \o @]

\* What a decoding function leaves: the error it returns and the value of
\* the destination it was given.
Decoded(e, val) == [err |-> e, val |-> val]

\* strconv.ParseInt(s, 10, 64) succeeds.
Parses(s) == Atoi(s) >= 0

\* convert(childKey, value, val) into an int: an int is assigned, a string
\* is parsed, anything else cannot be converted; nil leaves the value.
convert(childKey, cur, val) ==
    IF val = GoNil THEN Decoded(NoError, cur)
    ELSE IF val.go = "int" THEN Decoded(NoError, val.n)
    ELSE IF val.go = "string" /\ Parses(val.s)
    THEN Decoded(NoError, Atoi(val.s))
    ELSE Decoded(errorWithKey(NewError("convert"), childKey), cur)

\* decoder.scalar
scalar(p, childKey, cur, def) ==
    IF ProviderGet(p, childKey).found
    THEN convert(childKey, cur, ProviderGet(p, childKey).value)
    ELSE IF def # "" THEN convert(childKey, cur, GoString(def))
    ELSE convert(childKey, cur, GoNil)

\* checkCollections(src, dst): maps are decoded only into maps, and slices
\* and arrays only into slices and arrays.
checkCollections(src, dst) ==
    IF dst = "map" /\ src # "map" THEN NewError("collections")
    ELSE IF dst \in {"array", "slice"} /\ src \notin {"array", "slice"}
    THEN NewError("collections")
    ELSE NoError

RECURSIVE unmarshalValue(_, _, _, _, _)

\* A loop of decoder.sequence that goes on after the first index without a
\* value, up to the last override.
RECURSIVE sequenceFromPastGaps(_, _, _, _, _, _)
sequenceFromPastGaps(p, childKey, et, s, ai, destSlice) ==
    LET arrayKey == Append(childKey, Itoa(ai))
        v2 == ProviderGet(p, arrayKey)
        e == unmarshalValue(p, arrayKey, et, reflectZero(et), "")
    IN  IF v2.value # GoNil
        THEN IF checkCollections(reflectKind(v2.value), Kind(et)) # NoError
             THEN Decoded(NewError("collections"), destSlice)
             ELSE IF e.err # NoError THEN Decoded(e.err, destSlice)
             ELSE sequenceFromPastGaps(p, childKey, et, s, ai + 1, Append(destSlice, e.val))
        ELSE IF (s.go = "slice" /\ Len(s.es) > ai)
                \/ \E j \in (ai + 1)..(Len(Digits) - 1) : Itoa(j) \in DOMAIN p.over
        THEN sequenceFromPastGaps(p, childKey, et, s, ai + 1, Append(destSlice, reflectZero(et)))
        ELSE Decoded(NoError, destSlice)

\* A loop of decoder.sequence that does not look for a value at an index
\* inside the provider's own slice but decodes the slice's element.
RECURSIVE sequenceFromNative(_, _, _, _, _, _)
sequenceFromNative(p, childKey, et, s, ai, destSlice) ==
    LET arrayKey == Append(childKey, Itoa(ai))
        v2 == IF s.go = "slice" /\ Len(s.es) > ai
              THEN NewValue(s.es[ai + 1], TRUE)
              ELSE ProviderGet(p, arrayKey)
        e == IF et = "int" THEN convert(arrayKey, reflectZero(et), v2.value)
             ELSE unmarshalValue(p, arrayKey, et, reflectZero(et), "")
    IN  IF v2.value # GoNil
        THEN IF checkCollections(reflectKind(v2.value), Kind(et)) # NoError
             THEN Decoded(NewError("collections"), destSlice)
             ELSE IF e.err # NoError THEN Decoded(e.err, destSlice)
             ELSE sequenceFromNative(p, childKey, et, s, ai + 1, Append(destSlice, e.val))
        ELSE IF s.go = "slice" /\ Len(s.es) > ai
        THEN sequenceFromNative(p, childKey, et, s, ai + 1, Append(destSlice, reflectZero(et)))
        ELSE Decoded(NoError, destSlice)

\* The loop of decoder.sequence from the index ai on: an element with a
\* value that is not nil is decoded into a new value and appended; an
\* element without one is the zero value while ai is inside the provider's
\* own slice; the loop ends at the first index after that without a value.
RECURSIVE sequenceFrom(_, _, _, _, _, _)
sequenceFrom(p, childKey, et, s, ai, destSlice) ==
    LET arrayKey == Append(childKey, Itoa(ai))
        v2 == ProviderGet(p, arrayKey)
        e == unmarshalValue(p, arrayKey, et, reflectZero(et), "")
    IN  IF v2.value # GoNil
        THEN IF checkCollections(reflectKind(v2.value), Kind(et)) # NoError
             THEN Decoded(NewError("collections"), destSlice)
             ELSE IF e.err # NoError THEN Decoded(e.err, destSlice)
             ELSE sequenceFrom(p, childKey, et, s, ai + 1, Append(destSlice, e.val))
        ELSE IF s.go = "slice" /\ Len(s.es) > ai
        THEN sequenceFrom(p, childKey, et, s, ai + 1, Append(destSlice, reflectZero(et)))
        ELSE Decoded(NoError, destSlice)

\* A decoder.sequence that assigns what it has decoded when an element
\* fails.
sequencePartial(p, childKey, t, cur) ==
    LET s == ProviderGet(p, childKey).value
        r == sequenceFrom(p, childKey, Elem(t), s, 0, <<>>)
    IN  IF checkCollections(reflectKind(s), Kind(t)) # NoError /\ s # GoNil
        THEN Decoded(NewError("collections"), cur)
        ELSE IF Len(r.val) > 0 THEN Decoded(r.err, SliceVal(FALSE, r.val))
        ELSE Decoded(r.err, cur)

\* decoder.sequence: the destination is assigned once, after the loop, and
\* only if an element was decoded.
sequence(p, childKey, t, cur) ==
    LET s == ProviderGet(p, childKey).value
        r == sequenceFrom(p, childKey, Elem(t), s, 0, <<>>)
    IN  IF checkCollections(reflectKind(s), Kind(t)) # NoError /\ s # GoNil
        THEN Decoded(NewError("collections"), cur)
        ELSE IF r.err # NoError THEN Decoded(r.err, cur)
        ELSE IF Len(r.val) > 0 THEN Decoded(NoError, SliceVal(FALSE, r.val))
        ELSE Decoded(NoError, cur)

\* decoder.unmarshal of a value that holds no pointer, struct or map: no
\* cycle is found and no unmarshaler is implemented, and the kind of the
\* value decides.
unmarshalValue(p, name, t, cur, def) ==
    IF Kind(t) = "slice" THEN sequence(p, name, t, cur)
    ELSE scalar(p, name, cur, def)

\* decoder.mapping: nothing is done without a value; a value that is no map
\* is an error that names the key; each element is decoded under its key
\* into a new map, which is assigned after the last one. Go ranges over the
\* map's keys in any order, so each failing element's error may be the one
\* returned: the set of what the call may leave.
mapping(p, childKey, t, cur, def) ==
    LET v0 == ProviderGet(p, childKey)
        each == [k \in DOMAIN v0.value.m |->
                    unmarshalValue(p, Append(childKey, k), Elem(t), reflectZero(Elem(t)), def)]
    IN  IF ~v0.found \/ v0.value = GoNil THEN {Decoded(NoError, cur)}
        ELSE IF checkCollections(reflectKind(v0.value), Kind(t)) # NoError
        THEN {Decoded([kind |-> "expectedMap", keys |-> <<childKey>>], cur)}
        ELSE IF \E k \in DOMAIN each : k = "" \/ each[k].err # NoError
        THEN {Decoded(errorWithKey(NewError("emptyKey"), childKey), cur) :
                k \in {k \in DOMAIN each : k = ""}}
             \cup {Decoded(each[k].err, cur) :
                k \in {k \in DOMAIN each : each[k].err # NoError}}
        ELSE {Decoded(NoError, MapVal(FALSE, [k \in DOMAIN each |-> each[k].val]))}

\* The fields of type node struct { A, B *node }, in the order of their
\* declaration. A pointer is the address of a node, 0 for nil.
Fields == <<"A", "B">>

\* value.Interface() of a pointer and of a struct, the keys of decoder.m:
\* pointers are equal when they point to the same node, structs when their
\* fields are equal.
PtrTo(a) == [ptr |-> a]

StructOf(fields) == [struct |-> fields]

\* decoder.checkCycles(value): a pointer that is not nil and is already in
\* m is a cycle; every other comparable value is added to m. Nothing is
\* ever removed from m.
checkCycles(m, val) ==
    IF val \in m /\ "ptr" \in DOMAIN val /\ val.ptr # 0
    THEN [err |-> NewError("cycle"), m |-> m]
    ELSE [err |-> NoError, m |-> m \cup {val}]

\* A call of decoder.unmarshal(name, value, ""): value is the destination
\* itself (plain), the node at addr (struct), or the pointer in the field
\* of the node at addr (ptr).
UnmarshalCall(name, kind, addr, field) ==
    [name |-> name, kind |-> kind, addr |-> addr, field |-> field]

NoCall == UnmarshalCall(<<>>, "none", 0, "")

\* No decoder is run: there is no provider, destination or call.
DecoderInit ==
    /\ prov = <<>>
    /\ dtype = ""
    /\ dval = 0
    /\ heap = <<>>
    /\ dm = {}
    /\ stack = <<>>
    /\ call = <<>>
    /\ derr = <<>>
    /\ dpc = "off"

---------------------------------------------------------------------------
(* The values the merger is run on *)

\* The longest sequence value.
MaxSeqLen == 1

Scalars == {"x", "y"}

Keys == {"a", "b"}

SubKeys == {"c"}

SeqsUpTo(n) == UNION {[1..l -> Scalars] : l \in 0..n}

Leaves ==
    {Null} \cup {Scalar(s) : s \in Scalars}
           \cup {Sequence(es) : es \in SeqsUpTo(MaxSeqLen)}

\* Every function from a subset of ks to vals.
PartialFcns(ks, vals) == UNION {[d -> vals] : d \in SUBSET ks}

\* Mappings under the keys of SubKeys, holding leaves.
SubMappings == {Mapping(f) : f \in PartialFcns(SubKeys, Leaves)}

\* Null and the scalars.
Plain == {Null} \cup {Scalar(s) : s \in Scalars}

\* Mappings under the keys of Keys: "a" holds a leaf or a nested mapping,
\* every other key Null or a scalar.
TopMappings ==
    {Mapping(f) : f \in {g \in PartialFcns(Keys, Leaves \cup SubMappings) :
                            \A k \in DOMAIN g : k # "a" => g[k] \in Plain}}

Trees == Leaves \cup SubMappings \cup TopMappings

\* Every key path of at most two segments.
AllKeys == Keys \cup SubKeys

Paths == {<<>>} \cup {<<k>> : k \in AllKeys}
                \cup {<<k1, k2>> : k1 \in AllKeys, k2 \in AllKeys}

\* The most WithDefault calls chained on one handle.
MaxDefaults == 2

---------------------------------------------------------------------------
(* The caller's steps *)

\* The zero Value, which WithDefault returns beside an error.
NoValue == [path |-> <<>>, provider |-> NoProvider]

\* y, err := NewYAML(Source(sources[1]), ..., [Permissive()], [Expand(lookup)])
NewYAML ==
    /\ pc = "start"
    /\ LET r == NewYAMLWith(sources, strict, lookup) IN
        /\ y' = r.y
        /\ err' = r.err
        /\ nread' = r.read
        /\ pc' = IF r.err = "none" THEN "built" ELSE "failed"
    /\ UNCHANGED <<strict, sources, v, defaults, target, target2, perr, lookup, held, cacheVars, readerVars, decoderVars>>

\* v := y.Get(key)
Get(key) ==
    /\ pc = "built"
    /\ v' = get(y, key)
    /\ pc' = "got"
    /\ UNCHANGED <<strict, sources, y, err, nread, defaults, target, target2, perr, lookup, held, cacheVars, readerVars, decoderVars>>

\* v, err = v.WithDefault(d)
WithDefault(d) ==
    /\ pc = "got"
    /\ LET r == withDefault(v.provider, Wrap(v.path, d)) IN
        /\ err' = r.err
        /\ nread' = r.read
        /\ v' = IF r.err = "none"
                THEN [path |-> v.path, provider |-> r.y]
                ELSE NoValue
        /\ pc' = IF r.err = "none" THEN "got" ELSE "defaultFailed"
    /\ defaults' = Append(defaults, d)
    /\ UNCHANGED <<strict, sources, y, target, target2, perr, lookup, held, cacheVars, readerVars, decoderVars>>

\* err := v.Populate(&target)
Populate ==
    /\ pc = "got"
    /\ LET r == populate(v.provider, v.path, target) IN
        /\ target' = r.dest
        /\ perr' = Append(perr, r.err)
    /\ pc' = "populated"
    /\ UNCHANGED <<strict, sources, y, err, nread, v, defaults, target2, lookup, held, cacheVars, readerVars, decoderVars>>

\* yi, _ := NewYAML(Source(sources[i]), [Permissive()])
\* err := yi.Get(key).Populate(&target2), key being the key v was taken at:
\* the second destination is populated from source i alone, source 1 first.
PopulateFrom(i) ==
    /\ pc = "populated"
    /\ i = Len(perr)
    /\ i <= Len(sources)
    /\ LET alone == NewYAMLOf(<<sources[i]>>, strict)
           r == populate(alone.y, v.path, target2)
       IN  /\ alone.err = "none"
           /\ target2' = r.dest
           /\ perr' = Append(perr, r.err)
    /\ UNCHANGED <<pc, strict, sources, y, err, nread, v, defaults, target, lookup, held, cacheVars, readerVars, decoderVars>>

\* i := v.Value()
ReadValue ==
    /\ pc = "got"
    /\ held' = ValueHeld(v)
    /\ UNCHANGED <<pc, strict, sources, y, err, nread, v, defaults, target,
                   target2, perr, lookup, cacheVars, readerVars, decoderVars>>

\* The caller overwrites what Value() returned with t.
Mutate(t) ==
    /\ held.set
    /\ held.now # t
    /\ held' = [held EXCEPT !.now = t, !.prov = Written(held.prov, held, t)]
    /\ y' = Written(y, held, t)
    /\ v' = [v EXCEPT !.provider = Written(v.provider, held, t)]
    /\ UNCHANGED <<pc, strict, sources, err, nread, defaults, target, target2,
                   perr, lookup, cacheVars, readerVars, decoderVars>>

---------------------------------------------------------------------------
(* SpecPair: two trees L and H merged, L below H, in both modes and both  *)
(* ways the package merges: NewYAML(Source(L), Source(H)), and            *)
(* NewYAML(Source(H)) followed by Get(Root).WithDefault(L).               *)

InitPair ==
    /\ pc = "start"
    /\ strict \in BOOLEAN
    /\ sources \in {<<Encode(h)>> : h \in Trees}
                   \cup {<<Encode(l), Encode(h)>> : l \in Trees, h \in Trees}
    /\ y = NoProvider
    /\ err = "none"
    /\ nread = 0
    /\ v = NoValue
    /\ defaults = <<>>
    /\ target = NoDest
    /\ target2 = NoDest
    /\ perr = <<>>
    /\ lookup = "nil"
    /\ held = NoHeld
    /\ CacheInit
    /\ ReaderInit
    /\ DecoderInit

NextPair ==
    \/ NewYAML
    \/ Len(sources) = 1 /\ Get(Root)
    \/ \E d \in Trees : defaults = <<>> /\ WithDefault(d)

SpecPair == InitPair /\ [][NextPair]_vars

\* The pair merged, once the merge has run.
PairDone ==
    IF Len(sources) = 2 THEN pc \in {"built", "failed"} ELSE Len(defaults) = 1

PairL == IF Len(sources) = 2 THEN sources[1].tree ELSE defaults[1]

PairH == sources[Len(sources)].tree

\* The provider holding the merged tree.
PairM == IF Len(sources) = 2 THEN y ELSE v.provider

---------------------------------------------------------------------------
(* Claims about the merge of two trees, checked under SpecPair *)

\* L, H and the merged tree at path p.
AtL(p) == Walk(PairL, p)

AtH(p) == Walk(PairH, p)

AtM(p) == at(PairM, p)

BothMappings(p) ==
    /\ AtL(p).found /\ isMapping(AtL(p).val)
    /\ AtH(p).found /\ isMapping(AtH(p).val)

\* The merged value of two values under one key that are not both
\* mappings, by the rules for Null, scalars, sequences and mismatches.
MergedLeaf(l, h) == IF h = Null THEN Null ELSE h

\* C1: merging mappings L (lower) and H (higher) gives a mapping whose keys
\* are keys(L) \cup keys(H); a key only in L keeps L's value, a key only in
\* H gets H's value, and a key in both holds the merge of the two values,
\* at every depth at which both trees hold a mapping.
C1_DeepMergeOfMappings ==
    (PairDone /\ err = "none") =>
        \A p \in Paths : BothMappings(p) =>
            LET l == AtL(p).val.m
                h == AtH(p).val.m
                m == AtM(p)
            IN  /\ m.found
                /\ isMapping(m.val)
                /\ DOMAIN m.val.m = DOMAIN l \cup DOMAIN h
                /\ \A k \in DOMAIN l \ DOMAIN h : m.val.m[k] = l[k]
                /\ \A k \in DOMAIN h \ DOMAIN l : m.val.m[k] = h[k]
                /\ \A k \in DOMAIN l \cap DOMAIN h :
                      IF isMapping(l[k]) /\ isMapping(h[k])
                      THEN isMapping(m.val.m[k])
                      ELSE m.val.m[k] = MergedLeaf(l[k], h[k])

\* Two mappings were merged: one key only in L, and under a key of both a
\* nested pair of mappings in which H adds a key.
C1_Witness ==
    /\ PairDone /\ err = "none"
    /\ BothMappings(<<>>)
    /\ DOMAIN PairL.m \ DOMAIN PairH.m # {}
    /\ \E k \in AllKeys :
          /\ BothMappings(<<k>>)
          /\ DOMAIN AtH(<<k>>).val.m \ DOMAIN AtL(<<k>>).val.m # {}
          /\ isMapping(AtM(<<k>>).val)

\* C2: where H holds an explicit Null, the merged tree holds Null whatever
\* L holds there, at any depth, and the key stays present: the handle at
\* that path has a value (HasValue) and the value is Null.
C2_NullErasesLower ==
    (PairDone /\ err = "none") =>
        \A p \in Paths : (AtH(p).found /\ AtH(p).val = Null) =>
            /\ HasValue([path |-> p, provider |-> PairM])
            /\ AtM(p).val = Null

\* Under a key, a Null of H erased a non-empty mapping of L.
C2_Witness ==
    /\ PairDone /\ err = "none"
    /\ \E p \in Paths :
          /\ Len(p) = 1
          /\ AtH(p).found /\ AtH(p).val = Null
          /\ AtL(p).found /\ isMapping(AtL(p).val)
          /\ AtL(p).val.m # EmptyFcn
          /\ AtM(p).found /\ AtM(p).val = Null

\* C3: where L and H both hold a scalar, or both a sequence, the merged
\* value is exactly H's: the sequence of H replaces that of L, and no
\* element of L is in the result unless H has it.
C3_ScalarsAndSequencesReplaced ==
    (PairDone /\ err = "none") =>
        \A p \in Paths :
            LET l == AtL(p)
                h == AtH(p)
                m == AtM(p)
            IN  (/\ l.found /\ h.found
                 /\ \/ l.val.cat = "scalar" /\ h.val.cat = "scalar"
                    \/ l.val.cat = "sequence" /\ h.val.cat = "sequence") =>
                    /\ m.found
                    /\ m.val = h.val
                    /\ h.val.cat = "sequence" =>
                          /\ Len(m.val.elems) = Len(h.val.elems)
                          /\ \A i \in 1..Len(l.val.elems) :
                                (\E j \in 1..Len(m.val.elems) :
                                    m.val.elems[j] = l.val.elems[i])
                                => \E j \in 1..Len(h.val.elems) :
                                    h.val.elems[j] = l.val.elems[i]

\* Under a key, a non-empty sequence of H replaced a different non-empty
\* sequence of L.
C3_Witness ==
    /\ PairDone /\ err = "none"
    /\ \E p \in Paths :
          /\ Len(p) >= 1
          /\ AtL(p).found /\ AtH(p).found
          /\ isSequence(AtL(p).val) /\ isSequence(AtH(p).val)
          /\ AtL(p).val.elems # <<>> /\ AtH(p).val.elems # <<>>
          /\ AtL(p).val # AtH(p).val
          /\ AtM(p).val = AtH(p).val

\* L and H both hold a value at p, neither is Null, and the two are of
\* different categories.
Mismatch(p) ==
    /\ AtL(p).found /\ AtH(p).found
    /\ AtL(p).val # Null /\ AtH(p).val # Null
    /\ AtL(p).val.cat # AtH(p).val.cat

\* C4: where L and H hold non-Null values of different categories, at any
\* depth, the strict merge fails with the merge error and gives no provider
\* (NewYAML and WithDefault return the error), and the permissive merge
\* succeeds with H's value at that path.
C4_TypeMismatch ==
    PairDone =>
        \A p \in Paths : Mismatch(p) =>
            IF strict
            THEN /\ err = "merge"
                 /\ PairM = NoProvider
                 /\ Len(sources) = 1 => v = NoValue
            ELSE /\ err = "none"
                 /\ AtM(p).found
                 /\ AtM(p).val = AtH(p).val

\* A strict WithDefault failed on a mismatch two keys down.
C4_Witness ==
    /\ PairDone
    /\ strict /\ Len(sources) = 1 /\ err = "merge"
    /\ \E p \in Paths : Len(p) = 2 /\ Mismatch(p)

---------------------------------------------------------------------------
(* SpecList: NewYAML over every list of at most MaxSources sources, in     *)
(* both modes.                                                             *)

\* The most sources handed to NewYAML.
MaxSources == 3

\* The leaves of the listed sources.
ListLeaves == Plain \cup {Sequence(<<>>)}

\* The trees of the listed sources: a leaf, or a mapping whose key "a"
\* holds a leaf or a mapping whose key "c" holds a leaf.
ListTrees ==
    ListLeaves \cup
    {Mapping(f) : f \in PartialFcns({"a"},
        ListLeaves \cup {Mapping(g) : g \in PartialFcns({"c"}, ListLeaves)})}

\* The listed sources: no content, not YAML, a mapping that sets its key
\* twice, or a tree.
ListDocs ==
    {EmptyDoc, InvalidDoc, Doc(Mapping([k \in {"a"} |-> Scalar("y")]), TRUE)}
        \cup {Encode(t) : t \in ListTrees}

InitList ==
    /\ pc = "start"
    /\ strict \in BOOLEAN
    /\ sources \in UNION {[1..n -> ListDocs] : n \in 0..MaxSources}
    /\ y = NoProvider
    /\ err = "none"
    /\ nread = 0
    /\ v = NoValue
    /\ defaults = <<>>
    /\ target = NoDest
    /\ target2 = NoDest
    /\ perr = <<>>
    /\ lookup = "nil"
    /\ held = NoHeld
    /\ CacheInit
    /\ ReaderInit
    /\ DecoderInit

NextList == NewYAML

SpecList == InitList /\ [][NextList]_vars

---------------------------------------------------------------------------
(* Claims about the merge of a list of sources, checked under SpecList *)

Constructed == pc \in {"built", "failed"}

\* The left fold of merge over the first n sources, from Null: the merge
\* of the first n - 1 sources is the lower-priority side of source n. A
\* source without content takes no step. step is the source at which the
\* fold failed, content whether any source had content.
RECURSIVE FoldOf(_, _, _)
FoldOf(srcs, n, isStrict) ==
    IF n = 0
    THEN [err |-> "none", val |-> Null, content |-> FALSE, step |-> 0]
    ELSE LET prev == FoldOf(srcs, n - 1, isStrict)
             d == Decode(srcs[n], isStrict)
         IN  IF prev.err # "none" \/ d.err = "eof" THEN prev
             ELSE IF d.err # "none"
             THEN [err |-> d.err, val |-> Null, content |-> TRUE, step |-> n]
             ELSE LET m == merge(prev.val, d.val, isStrict) IN
                  [err |-> m.err, val |-> m.val, content |-> TRUE,
                   step |-> IF m.err = "none" THEN 0 ELSE n]

FoldTo(n) == FoldOf(sources, n, strict)

\* C5: the merge of the sources s1..sn is the left fold
\* merge(...merge(merge(Null, s1), s2)..., sn) in the order given; at the
\* first step that fails the fold stops, no later source is read, and
\* NewYAML returns that step's error and no provider.
C5_LeftFoldInOrder ==
    Constructed =>
        LET f == FoldTo(Len(sources)) IN
        IF f.err = "none"
        THEN /\ pc = "built" /\ err = "none"
             /\ y.contents = f.val
             /\ y.empty = ~f.content
             /\ nread = Len(sources)
        ELSE /\ pc = "failed" /\ err = f.err
             /\ y = NoProvider
             /\ nread = f.step

\* Of three sources, the second failed to merge and the third was not read.
C5_Witness ==
    /\ pc = "failed" /\ err = "merge"
    /\ Len(sources) = 3 /\ nread = 2

\* Three sources with content were merged, and the order mattered.
C5_WitnessOrder ==
    /\ pc = "built"
    /\ Len(sources) = 3 /\ nread = 3
    /\ \A i \in 1..3 : sources[i].kind = "yaml"
    /\ y.contents # NewYAMLOf(<<sources[3], sources[2], sources[1]>>, strict).y.contents

\* C6: whenever the strict merge of a list of sources succeeds, the
\* permissive merge of the same list succeeds with the same tree.
C6_PermissiveAgreesWithStrict ==
    (pc = "built" /\ strict) =>
        LET perm == NewYAMLOf(sources, FALSE) IN
        /\ perm.err = "none"
        /\ perm.y.contents = y.contents
        /\ perm.y.empty = y.empty

\* A strict merge of three sources with content gave a mapping.
C6_Witness ==
    /\ pc = "built" /\ strict
    /\ Len(sources) = 3
    /\ \A i \in 1..3 : sources[i].kind = "yaml" /\ isMapping(sources[i].tree)
    /\ sources[1] # sources[2] /\ sources[2] # sources[3]
    /\ isMapping(y.contents)
    /\ y.contents # sources[3].tree

---------------------------------------------------------------------------
(* SpecDefault: a provider over at most MaxRetained sources; a handle is   *)
(* taken at a path, given up to MaxDefaults defaults one after the other,  *)
(* and populated into a destination at its zero value.                     *)

\* The most sources the provider is constructed from.
MaxRetained == 2

\* What "a" holds in a source.
DefaultSourceLeaves ==
    {Null, Scalar("x"), Sequence(<<>>), Mapping(EmptyFcn),
     Mapping([k \in {"c"} |-> Scalar("x")])}

\* A source is a top-level null or a mapping with the key "a".
DefaultSourceTrees ==
    {Null} \cup {Mapping([k \in {"a"} |-> t]) : t \in DefaultSourceLeaves}

\* The defaults: none of their scalars occurs in a source.
DefaultValues ==
    {Scalar("y"), Sequence(<<"y">>),
     Mapping([k \in {"c"} |-> Scalar("y")]),
     Mapping([k \in {"c", "d"} |-> Scalar("z")])}

\* The keys handles are taken at: "", "a" and "a.c".
DefaultKeys == {Root, <<"a">>, <<"a", "c">>}

\* The destinations handles are populated into: a string and
\* struct{ C, D string }.
DefaultDests ==
    {StringDest(""),
     StructDest([k \in {"c", "d"} |-> StringDest("")])}

InitDefault ==
    /\ pc = "start"
    /\ strict \in BOOLEAN
    /\ sources \in UNION {[1..n -> {Encode(t) : t \in DefaultSourceTrees}] :
                            n \in 0..MaxRetained}
    /\ y = NoProvider
    /\ err = "none"
    /\ nread = 0
    /\ v = NoValue
    /\ defaults = <<>>
    /\ target \in DefaultDests
    /\ target2 = NoDest
    /\ perr = <<>>
    /\ lookup = "nil"
    /\ held = NoHeld
    /\ CacheInit
    /\ ReaderInit
    /\ DecoderInit

NextDefault ==
    \/ NewYAML
    \/ \E key \in DefaultKeys : Get(key)
    \/ \E d \in DefaultValues : Len(defaults) < MaxDefaults /\ WithDefault(d)
    \/ Populate

SpecDefault == InitDefault /\ [][NextDefault]_vars

---------------------------------------------------------------------------
(* Claims about defaults, checked under SpecDefault *)

\* WithDefault has been called n times on the handle and has succeeded
\* each time.
DefaultDone(n) == pc \in {"got", "populated"} /\ Len(defaults) = n

\* Every path of up to three segments over the keys in use.
DeepPaths == UNION {[1..n -> {"a", "c", "d"}] : n \in 0..3}

HasNullSource == \E i \in 1..Len(sources) : sources[i] = Encode(Null)

\* The merged sources hold an explicit null at the handle's path.
NullAtPath == at(y, v.path) = [found |-> TRUE, val |-> Null]

\* C9 as stated: if the sources hold an explicit Null at the handle's path,
\* or a source is a top-level Null document, then after WithDefault(d) the
\* value at that path is Null.
C9_Original ==
    DefaultDone(1) /\ (NullAtPath \/ HasNullSource) => Value(v) = Null

\* C9: an explicit Null in the sources erases a default. If the sources
\* hold an explicit Null at the handle's path, or a source is a top-level
\* Null document and the sources hold no value at the path, then after
\* WithDefault(d) the value at the path is Null, the default is not
\* returned there, and Populate leaves a fresh destination at its zero
\* value without an error. A top-level Null source leaves nothing of the
\* default anywhere in the provider.
C9_NullErasesDefault ==
    DefaultDone(1) =>
        /\ NullAtPath => at(v.provider, v.path) = [found |-> TRUE, val |-> Null]
        /\ HasNullSource =>
            /\ v.provider.contents = y.contents
            /\ v.provider.empty = y.empty
        /\ NullAtPath \/ (HasNullSource /\ ~HasValue(get(y, v.path))) =>
            /\ Value(v) = Null
            /\ Value(v) # defaults[1]
            /\ pc = "populated" =>
                /\ target = Zero(target)
                /\ perr = <<FALSE>>

\* The sources hold an explicit null at "a", the default y was given there
\* and the handle was populated into a string, which is empty.
C9_Witness ==
    /\ pc = "populated"
    /\ Len(defaults) = 1 /\ defaults[1] = Scalar("y")
    /\ v.path = <<"a">>
    /\ NullAtPath
    /\ target = StringDest("")

Reaches(t, path) ==
    \/ path = <<>>
    \/ /\ Len(path) = 1
       /\ t.cat = "mapping" /\ path[1] \in DOMAIN t.m
    \/ /\ Len(path) = 2
       /\ t.cat = "mapping" /\ path[1] \in DOMAIN t.m
       /\ t.m[path[1]].cat = "mapping" /\ path[2] \in DOMAIN t.m[path[1]].m

\* C13: HasValue on a handle is true exactly when the walk of the handle's
\* path through the merged tree reaches a node, an explicit Null included:
\* it is false when a segment is missing and when the path descends
\* through a scalar, a sequence or a Null, and false at every path of the
\* Empty provider; the Root path is found whenever the provider is not
\* Empty.
C13_HasValueIffReached ==
    pc \in {"got", "populated"} =>
        /\ HasValue(v) = (~v.provider.empty /\ Reaches(v.provider.contents, v.path))
        /\ v.path = <<>> => HasValue(v) = ~v.provider.empty

\* The sources hold an explicit null at "a" and HasValue is true there.
C13_Witness ==
    /\ pc = "got" /\ defaults = <<>>
    /\ v.path = <<"a">>
    /\ y.contents = Mapping([k \in {"a"} |-> Null])
    /\ HasValue(v)

---------------------------------------------------------------------------
(* SpecPopulate: a provider over two sources A and B; a handle is taken at *)
(* a path and populated into a destination, and a second destination in    *)
(* the same state is populated at the same path from A alone and then from *)
(* B alone.                                                                *)

\* What "c" holds under "a".
PopulateSub ==
    {Mapping(EmptyFcn)}
        \cup {Mapping([k \in {"c"} |-> l]) : l \in {Null, Scalar("x")}}

\* What "a" holds.
PopulateLeaves ==
    {Null, Scalar("x"), Scalar("y"), Sequence(<<>>), Sequence(<<"x">>)}
        \cup PopulateSub

\* A source is a top-level null or a mapping in which "a" may hold a leaf
\* and "b" may hold y.
PopulateTrees ==
    {Null} \cup
    {Mapping(f) : f \in {g \in PartialFcns({"a", "b"}, PopulateLeaves) :
                            "b" \in DOMAIN g => g["b"] = Scalar("y")}}

\* The destinations of the types a field takes: a string, empty or already
\* set, a []string and an interface{}.
PopulateFields ==
    {StringDest(""), StringDest("q"), SliceDest(TRUE, <<>>), IfaceDest(Null)}

\* struct{ C string }
PopulateInner ==
    {StructDest([k \in {"c"} |-> t]) : t \in {StringDest(""), StringDest("q")}}

\* The destinations: a field's, struct{ C string }, and struct{ A T; B
\* string } for each of those as T.
PopulateDests ==
    PopulateFields \cup PopulateInner \cup
    {StructDest([k \in {"a", "b"} |-> IF k = "a" THEN t ELSE StringDest("")]) :
        t \in PopulateFields \cup PopulateInner}

InitPopulate ==
    /\ pc = "start"
    /\ strict \in BOOLEAN
    /\ sources \in {<<Encode(a), Encode(b)>> :
                        a \in PopulateTrees, b \in PopulateTrees}
    /\ y = NoProvider
    /\ err = "none"
    /\ nread = 0
    /\ v = NoValue
    /\ defaults = <<>>
    /\ target \in PopulateDests
    /\ target2 = target
    /\ perr = <<>>
    /\ lookup = "nil"
    /\ held = NoHeld
    /\ CacheInit
    /\ ReaderInit
    /\ DecoderInit

NextPopulate ==
    \/ NewYAML
    \/ \E key \in DefaultKeys : Get(key)
    \/ Populate
    \/ \E i \in 1..2 : PopulateFrom(i)

SpecPopulate == InitPopulate /\ [][NextPopulate]_vars

---------------------------------------------------------------------------
(* Claims about Populate, checked under SpecPopulate *)

\* target has been populated from the merge of A and B, and target2 from A
\* and then from B.
PopulateDone == pc = "populated" /\ Len(perr) = 3

\* C7 as stated: for A and B whose merge raises no error and any
\* destination T, populating T from the provider built on merge(A, B)
\* gives the same destination as populating T from A alone and then from B
\* alone.
C7_Original == PopulateDone => target = target2

\* The tree holds an explicit null.
RECURSIVE HasNull(_)
HasNull(t) ==
    \/ t = Null
    \/ isMapping(t) /\ \E k \in DOMAIN t.m : HasNull(t.m[k])

\* The destination is an interface{} or has a field that is one.
RECURSIVE HasIface(_)
HasIface(dest) ==
    \/ dest.kind = "iface"
    \/ dest.kind = "struct" /\ \E k \in DOMAIN dest.fields : HasIface(dest.fields[k])

\* C7: for A and B that hold no explicit null and whose strict merge
\* raises no error, and any destination T made of structs, strings and
\* slices, populating T from the provider built on merge(A, B) gives the
\* same destination as populating T from A alone and then from B alone.
C7_PopulateOfMerge ==
    PopulateDone
    /\ ~HasNull(sources[1].tree) /\ ~HasNull(sources[2].tree)
    /\ merge(sources[1].tree, sources[2].tree, TRUE).err = "none"
    /\ ~HasIface(target)
        => target = target2

\* A holds {c: x} at "a", B holds y at "b", and both ways of populating
\* struct{ A struct{ C string }; B string } at the root give {{x}, y}.
C7_Witness ==
    /\ PopulateDone
    /\ v.path = <<>>
    /\ sources[1].tree = Mapping([k \in {"a"} |-> Mapping([j \in {"c"} |-> Scalar("x")])])
    /\ sources[2].tree = Mapping([k \in {"b"} |-> Scalar("y")])
    /\ target = StructDest([k \in {"a", "b"} |->
                    IF k = "a" THEN StructDest([j \in {"c"} |-> StringDest("x")])
                    ELSE StringDest("y")])
    /\ target2 = target

---------------------------------------------------------------------------
(* SpecExpand: a provider over one or two sources whose scalars hold       *)
(* variable references, built with or without Expand; a handle is taken    *)
(* and given defaults that hold references too.                            *)

\* The scalar texts: x, $A, $B, $$A, ${B:d}, ${B:""}, ${B}, ${B:}, ${A:b:c}.
ExpandTexts ==
    {<<"x">>, <<"$", "A">>, <<"$", "B">>, <<"$", "$", "A">>,
     <<"$", "{", "B", ":", "d", "}">>,
     <<"$", "{", "B", ":", "\"", "\"", "}">>,
     <<"$", "{", "B", "}">>,
     <<"$", "{", "B", ":", "}">>,
     <<"$", "{", "A", ":", "b", ":", "c", "}">>}

\* A source is a mapping in which "a" or "b" holds a scalar.
ExpandTrees ==
    {Mapping([k \in {key} |-> Scalar(t)]) : key \in {"a", "b"}, t \in ExpandTexts}

\* The defaults.
ExpandDefaults ==
    {Scalar(<<"y">>), Scalar(<<"$", "A">>),
     Mapping([k \in {"b"} |-> Scalar(<<"$", "B">>)])}

\* The keys handles are taken at: "", "a" and "b".
ExpandKeys == {Root, <<"a">>, <<"b">>}

InitExpand ==
    /\ pc = "start"
    /\ strict \in BOOLEAN
    /\ sources \in {<<Encode(h)>> : h \in ExpandTrees}
                   \cup {<<Encode(l), Encode(h)>> : l \in ExpandTrees, h \in ExpandTrees}
    /\ y = NoProvider
    /\ err = "none"
    /\ nread = 0
    /\ v = NoValue
    /\ defaults = <<>>
    /\ target = NoDest
    /\ target2 = NoDest
    /\ perr = <<>>
    /\ lookup \in Lookups \cup {"nil"}
    /\ held = NoHeld
    /\ CacheInit
    /\ ReaderInit
    /\ DecoderInit

NextExpand ==
    \/ NewYAML
    \/ \E key \in ExpandKeys : Get(key)
    \/ \E d \in ExpandDefaults : Len(defaults) < MaxDefaults /\ WithDefault(d)

SpecExpand == InitExpand /\ [][NextExpand]_vars

---------------------------------------------------------------------------
(* Claims about expansion in the provider, checked under SpecExpand *)

\* The sources a provider constructed directly would be given in place of
\* the defaults applied so far: the last default first, each wrapped under
\* the handle's path, then the provider's sources.
RECURSIVE WrappedAt(_, _)
WrappedAt(path, n) ==
    IF n = 0 THEN <<>>
    ELSE <<Encode(Wrap(path, defaults[n]))>> \o WrappedAt(path, n - 1)

WrappedDefaults(n) == WrappedAt(v.path, n)

\* C11: WithDefault re-runs the whole construction pipeline, expansion
\* included: on a provider built with Expand, the defaulted provider holds
\* what NewYAML with the same options holds when it is given the
\* serialized default followed by the sources.
C11_DefaultRerunsExpansion ==
    pc = "got" /\ defaults # <<>> /\ lookup # "nil" =>
        LET direct == NewYAMLWith(WrappedDefaults(Len(defaults)) \o sources,
                                  strict, lookup)
        IN  /\ direct.err = "none"
            /\ v.provider.contents = direct.y.contents
            /\ v.provider.empty = direct.y.empty

---------------------------------------------------------------------------
(* Claims about references in the sources, checked under SpecExpand *)

\* The unbracketed references of ExpandTexts, with their names.
Unbracketed ==
    {[text |-> <<"$", "A">>, name |-> <<"A">>],
     [text |-> <<"$", "B">>, name |-> <<"B">>]}

\* The bracketed references of ExpandTexts, with their keys and defaults.
BracketedRefs ==
    {[text |-> <<"$", "{", "B", ":", "d", "}">>, key |-> <<"B">>, def |-> <<"d">>],
     [text |-> <<"$", "{", "B", ":", "\"", "\"", "}">>, key |-> <<"B">>,
      def |-> <<"\"", "\"">>],
     [text |-> <<"$", "{", "B", "}">>, key |-> <<"B">>, def |-> <<>>],
     [text |-> <<"$", "{", "B", ":", "}">>, key |-> <<"B">>, def |-> <<>>],
     [text |-> <<"$", "{", "A", ":", "b", ":", "c", "}">>, key |-> <<"A">>,
      def |-> <<"b", ":", "c">>]}

\* The merge of the sources, which is what is expanded.
MergedTree == YAML(sources, strict).buf.tree

\* The text the merge holds at the top-level key k.
TextAt(k) == MergedTree.m[k].v

\* The key k holds an unbracketed reference whose name is not found.
FailsUndefined(k) ==
    \E u \in Unbracketed : TextAt(k) = u.text /\ ~Lookup(lookup, u.name).found

\* The key k holds a bracketed reference whose key is not found and whose
\* default has no byte.
FailsEmpty(k) ==
    \E b \in BracketedRefs :
        TextAt(k) = b.text /\ ~Lookup(lookup, b.key).found /\ b.def = <<>>

\* The keys at which expansion fails, and whether k is the first of them
\* in the order the merged document is written.
Failing == {k \in DOMAIN MergedTree.m : FailsUndefined(k) \/ FailsEmpty(k)}

FirstFailing(k) ==
    /\ k \in Failing
    /\ \A i, j \in 1..Len(KeyOrder) :
        KeyOrder[i] = k /\ KeyOrder[j] \in Failing => i <= j

\* NewYAML has returned and was given Expand.
Expanded == pc # "start" /\ lookup # "nil"

\* C18: where the merged sources hold $NAME and the lookup finds NAME, a
\* provider that was constructed holds NAME's value there; where the
\* lookup does not find NAME, construction fails, no provider is returned,
\* and the error is the undefined-variable error unless an earlier scalar
\* failed before.
C18_Unbracketed ==
    Expanded =>
        \A k \in DOMAIN MergedTree.m, u \in Unbracketed :
            TextAt(k) = u.text =>
                IF Lookup(lookup, u.name).found
                THEN pc # "failed" =>
                        y.contents.m[k] = Scalar(Lookup(lookup, u.name).value)
                ELSE /\ pc = "failed"
                     /\ y = NoProvider
                     /\ FirstFailing(k) => err = "UndefinedVariable"

\* The sources hold a: $A and b: $B and the lookup finds A only:
\* construction failed with the undefined-variable error and there is no
\* provider.
C18_Witness ==
    /\ Expanded
    /\ lookup = "onlyA"
    /\ DOMAIN MergedTree.m = {"a", "b"}
    /\ TextAt("a") = <<"$", "A">>
    /\ TextAt("b") = <<"$", "B">>
    /\ pc = "failed"
    /\ err = "UndefinedVariable"
    /\ y = NoProvider

\* The sources hold a: $A, the lookup finds A and the provider holds A's
\* value at a.
C18_WitnessFound ==
    /\ Expanded
    /\ lookup = "onlyA"
    /\ DOMAIN MergedTree.m = {"a"}
    /\ TextAt("a") = <<"$", "A">>
    /\ pc = "built"
    /\ y.contents.m["a"] = Scalar(<<"$", "A">>)

\* C19: where the merged sources hold ${KEY:DEFAULT}, KEY ending at the
\* first colon, a provider that was constructed holds KEY's value there
\* when the lookup finds KEY, and otherwise DEFAULT, or nothing when
\* DEFAULT is the two bytes ""; when KEY is not found and DEFAULT has no
\* byte or there is no colon, construction fails, with the empty-default
\* error unless an earlier scalar failed before. Construction fails in no
\* other case.
C19_Bracketed ==
    Expanded =>
        /\ \A k \in DOMAIN MergedTree.m, b \in BracketedRefs :
            TextAt(k) = b.text =>
                IF Lookup(lookup, b.key).found
                THEN pc # "failed" =>
                        y.contents.m[k] = Scalar(Lookup(lookup, b.key).value)
                ELSE IF b.def = <<>>
                THEN /\ pc = "failed"
                     /\ y = NoProvider
                     /\ FirstFailing(k) => err = "EmptyDefault"
                ELSE IF b.def = <<"\"", "\"">>
                THEN pc # "failed" => y.contents.m[k] = Null
                ELSE pc # "failed" => y.contents.m[k] = Scalar(b.def)
        /\ Failing = {} => pc # "failed"

\* The sources hold a: ${A:b:c} and b: ${B:""} and the lookup finds
\* nothing: the provider holds b:c at a and nothing at b.
C19_Witness ==
    /\ Expanded
    /\ lookup = "none"
    /\ DOMAIN MergedTree.m = {"a", "b"}
    /\ TextAt("a") = <<"$", "{", "A", ":", "b", ":", "c", "}">>
    /\ TextAt("b") = <<"$", "{", "B", ":", "\"", "\"", "}">>
    /\ pc = "built"
    /\ y.contents.m["a"] = Scalar(<<"b", ":", "c">>)
    /\ y.contents.m["b"] = Null

\* The sources hold a: ${B:} and the lookup finds nothing: construction
\* failed with the empty-default error.
C19_WitnessEmpty ==
    /\ Expanded
    /\ lookup = "none"
    /\ TextAt("a") = <<"$", "{", "B", ":", "}">>
    /\ pc = "failed"
    /\ err = "EmptyDefault"
    /\ y = NoProvider

---------------------------------------------------------------------------
(* SpecRead: a provider over one or two sources is read through handles:   *)
(* Get, Value, WithDefault and Populate in any order, the caller writing   *)
(* to what Value returned in between.                                      *)

\* What the caller writes over a value it was handed.
Writes == {Null, Scalar("m"), Mapping([k \in {"c"} |-> Scalar("m")])}

\* The defaults given in between.
ReadDefaults ==
    {Scalar("y"), Mapping([k \in {"c", "d"} |-> Scalar("z")])}

InitRead ==
    /\ pc = "start"
    /\ strict \in BOOLEAN
    /\ sources \in UNION {[1..n -> {Encode(t) : t \in DefaultSourceTrees}] :
                            n \in 1..2}
    /\ y = NoProvider
    /\ err = "none"
    /\ nread = 0
    /\ v = NoValue
    /\ defaults = <<>>
    /\ target = IfaceDest(Null)
    /\ target2 = NoDest
    /\ perr = <<>>
    /\ lookup = "nil"
    /\ held = NoHeld
    /\ CacheInit
    /\ ReaderInit
    /\ DecoderInit

NextRead ==
    \/ NewYAML
    \/ \E key \in DefaultKeys : Get(key)
    \/ \E d \in ReadDefaults : Len(defaults) < MaxDefaults /\ WithDefault(d)
    \/ ReadValue
    \/ \E t \in Writes : Mutate(t)
    \/ Populate

SpecRead == InitRead /\ [][NextRead]_vars

---------------------------------------------------------------------------
(* Claims about reads, checked under SpecRead *)

---------------------------------------------------------------------------
(* Claims about sources without content, checked under SpecList *)

\* The sources that have content, in order.
WithContent == SelectSeq(sources, LAMBDA d : d # EmptyDoc)

\* C14: sources with no content are skipped by the merge: they neither
\* contribute nor erase, so the provider is the one the sources with
\* content alone give; if every source is empty the provider is the Empty
\* provider and HasValue is false at every path, Root included.
C14_EmptySourcesSkipped ==
    Constructed =>
        LET f == FoldOf(WithContent, Len(WithContent), strict) IN
        /\ (pc = "built") = (f.err = "none")
        /\ pc = "built" =>
            /\ y.contents = f.val
            /\ y.empty = (WithContent = <<>>)
            /\ WithContent = <<>> =>
                \A key \in {Root} \cup DeepPaths : ~HasValue(get(y, key))

\* [full, empty] was merged and the provider holds full.
C14_Witness ==
    /\ pc = "built"
    /\ sources = <<Encode(Mapping([k \in {"a"} |-> Scalar("x")])), EmptyDoc>>
    /\ y.contents = Mapping([k \in {"a"} |-> Scalar("x")])
    /\ ~y.empty

---------------------------------------------------------------------------
(* SpecCache: the goroutines of Procs call Get on one cached provider, up  *)
(* to MaxGets times each, for the keys of CacheKeys, in any interleaving   *)
(* of their steps.                                                         *)

\* The YAML provider's variables, which the cached provider does not use.
yamlVars ==
    <<pc, strict, sources, y, err, nread, v, defaults, target, target2, perr,
      lookup, held>>

InitCache ==
    /\ pc = "start"
    /\ strict = TRUE
    /\ sources = <<>>
    /\ y = NoProvider
    /\ err = "none"
    /\ nread = 0
    /\ v = NoValue
    /\ defaults = <<>>
    /\ target = NoDest
    /\ target2 = NoDest
    /\ perr = <<>>
    /\ lookup = "nil"
    /\ held = NoHeld
    /\ CacheInit
    /\ ReaderInit
    /\ DecoderInit

NextCache ==
    /\ UNCHANGED <<yamlVars, readerVars, decoderVars>>
    /\ \E i \in Procs :
        \/ \E key \in CacheKeys : CacheGet(i, key)
        \/ CacheRLock(i)
        \/ CacheCheck(i)
        \/ CacheRUnlock(i)
        \/ CacheCall(i)
        \/ CacheLock(i)
        \/ CacheInsert(i)
        \/ CacheUnlock(i)

SpecCache == InitCache /\ [][NextCache]_vars

---------------------------------------------------------------------------
(* Claims about the cached provider, checked under SpecCache *)

\* Goroutine i has missed the cache and is at or past the call of the
\* underlying provider.
PastMiss(i) == gets[i].line \in {"call", "lock", "insert", "unlock"}

---------------------------------------------------------------------------
(* SpecTransform: every byte string of up to MaxInput bytes, the longer    *)
(* texts of Texts and the runs of up to MaxDollars dollar signs before a   *)
(* name are read through the expander, with every lookup, in every         *)
(* sequence of chunks and with both sizes of the caller's buffer.          *)

\* The longest input of which every byte string is read.
MaxInput == 3

\* The longest run of dollar signs before a name.
MaxDollars == 5

\* The bytes inputs are made of: the characters of the reference forms, a
\* letter, and a digit, which is part of a name but does not start one.
Bytes == {"$", "{", "}", ":", "A", "1"}

ShortInputs == UNION {[1..n -> Bytes] : n \in 0..MaxInput}

\* Longer inputs: bracketed references with and without a default, with
\* colons in the default, with the default "", after an escaped dollar
\* sign, and references next to each other.
Texts ==
    {<<"$", "{", "A", ":", "1", "}">>,
     <<"$", "{", "1", ":", "A", ":", "1", "}">>,
     <<"$", "{", "1", ":", "\"", "\"", "}">>,
     <<"$", "{", "1", ":", "}">>,
     <<"$", "$", "{", "A", "}">>,
     <<"$", "A", "$", "A", "1">>,
     <<"$", "{", "A", "}", "$">>,
     <<"1", "$", "{", "A", ":">>}

\* n dollar signs.
Dollars(n) == [i \in 1..n |-> "$"]

\* A run of dollar signs before the name A.
DollarRuns == {Dollars(n) \o <<"A">> : n \in 0..MaxDollars}

Inputs == ShortInputs \cup Texts \cup DollarRuns

\* The variables the expander's reader does not use.
otherVars ==
    <<pc, strict, sources, y, err, nread, v, defaults, target, target2, perr,
      lookup, held, cacheVars, decoderVars>>

\* The provider and the cached provider are not used.
OtherInit ==
    /\ pc = "start"
    /\ strict = TRUE
    /\ sources = <<>>
    /\ y = NoProvider
    /\ err = "none"
    /\ nread = 0
    /\ v = NoValue
    /\ defaults = <<>>
    /\ target = NoDest
    /\ target2 = NoDest
    /\ perr = <<>>
    /\ held = NoHeld
    /\ CacheInit
    /\ DecoderInit

InitTransform ==
    /\ OtherInit
    /\ lookup \in Lookups
    /\ input \in Inputs
    /\ \E p \in ReadSizes : rd = NewReader(input, p)
    /\ got = <<>>

NextTransform ==
    /\ UNCHANGED otherVars
    /\ \/ \E k \in 0..Len(input), eof \in BOOLEAN : Fill(k, eof)
       \/ Xform
       \/ Copy

SpecTransform == InitTransform /\ [][NextTransform]_vars

\* A prefix of the byte string s.
IsPrefix(a, s) == Len(a) <= Len(s) /\ a = SubSeq(s, 1, Len(a))

---------------------------------------------------------------------------
(* Claims about the forms the expander recognizes, checked under           *)
(* SpecTransform                                                           *)

\* The dollar sign at index i of s is followed by no recognized form: it
\* is the last byte, or the next byte is neither a dollar sign nor the
\* start of a name, and if it is an opening brace no closing brace follows.
Unrecognized(s, i) ==
    \/ i = Len(s)
    \/ /\ i < Len(s)
       /\ s[i + 1] # "$"
       /\ ~IsNameStart(s[i + 1])
       /\ s[i + 1] = "{" => FirstIndex(s, "}", i + 2) = 0

\* Every dollar sign of s is followed by no recognized form.
NoForm(s) == \A i \in 1..Len(s) : s[i] = "$" => Unrecognized(s, i)

\* C20: an input that starts with $$ expands to one dollar sign followed
\* by the expansion of what follows the pair; a run of n dollar signs
\* before the name A expands to n / 2 dollar signs followed by A's value
\* when n is odd and by the text A, with no lookup, when n is even; an
\* input in which every dollar sign is followed by no recognized form
\* expands to itself.
C20_DollarPairs ==
    Finished =>
        /\ Len(input) >= 2 /\ input[1] = "$" /\ input[2] = "$" =>
            LET r == Expand(SubSeq(input, 3, Len(input)), lookup) IN
            /\ got = <<"$">> \o r.out
            /\ rd.err = r.err
            /\ rd.names = r.looked
        /\ \A n \in 0..MaxDollars :
            input = Dollars(n) \o <<"A">> =>
                IF n % 2 = 0
                THEN /\ got = Dollars(n \div 2) \o <<"A">>
                     /\ rd.err = "none"
                     /\ rd.names = <<>>
                ELSE /\ rd.names = << <<"A">> >>
                     /\ IF Lookup(lookup, <<"A">>).found
                        THEN /\ got = Dollars(n \div 2) \o Lookup(lookup, <<"A">>).value
                             /\ rd.err = "none"
                        ELSE /\ got = Dollars(n \div 2)
                             /\ rd.err = "UndefinedVariable"
        /\ NoForm(input) =>
            /\ got = input
            /\ rd.err = "none"
            /\ rd.names = <<>>

\* Five dollar signs before the name A were read with a lookup that finds
\* every name: two dollar signs and A's value came out.
C20_Witness ==
    /\ input = Dollars(5) \o <<"A">>
    /\ lookup = "all"
    /\ Finished
    /\ got = <<"$", "$", "e">>

\* An input that ends in a dollar sign and holds an opening brace that is
\* never closed was read to its end and came out as it was.
C20_WitnessKept ==
    /\ input = <<"$", "{", "$">>
    /\ Finished
    /\ got = input

---------------------------------------------------------------------------
(* SpecEscape: every input of Inputs is escaped and then read through the  *)
(* expander, with every lookup and in every sequence of chunks.            *)

InitEscape ==
    /\ OtherInit
    /\ lookup \in Lookups
    /\ input \in Inputs
    /\ rd = NewReader(input, 11)
    /\ got = <<>>

NextEscape ==
    /\ UNCHANGED otherVars
    /\ \/ Escape
       \/ rd.escaped /\ \E k \in 0..Len(input), eof \in BOOLEAN : Fill(k, eof)
       \/ rd.escaped /\ Xform
       \/ rd.escaped /\ Copy

SpecEscape == InitEscape /\ [][NextEscape]_vars

\* C16: an escaped byte string read through the expander gives back the
\* byte string as it was before escaping, without an error and without a
\* name being looked up, whatever the lookup.
C16_EscapeRoundTrip ==
    /\ rd.names = <<>>
    /\ rd.err = "none"
    /\ IsPrefix(got \o rd.dst, rd.orig)
    /\ Finished => got = rd.orig
    /\ rd.escaped =>
        \A l \in Lookups :
            LET r == Expand(input, l) IN
            r.out = rd.orig /\ r.err = "none" /\ r.looked = <<>>

\* The text ${A:1}, escaped, was read to its end with a lookup that finds
\* every name.
C16_Witness ==
    /\ rd.orig = <<"$", "{", "A", ":", "1", "}">>
    /\ input = <<"$", "$", "{", "A", ":", "1", "}">>
    /\ lookup = "all"
    /\ Finished
    /\ got = rd.orig

---------------------------------------------------------------------------
(* Further claims about the cached provider *)

\* C24: the cache holds an entry only for a key at which the underlying
\* provider has a value: a key without one is never in the cache, so
\* every call of Get for it calls the underlying provider again.
C24_CachesOnlyFound ==
    \A k \in DOMAIN cache : Underlying(k).found

\* SpecCacheLive: SpecCache in which a goroutine that can take its next
\* step inside Get does so in the end.
GetStep(i) ==
    \/ CacheRLock(i)
    \/ CacheCheck(i)
    \/ CacheRUnlock(i)
    \/ CacheCall(i)
    \/ CacheLock(i)
    \/ CacheInsert(i)
    \/ CacheUnlock(i)

NextCacheLive ==
    /\ UNCHANGED <<yamlVars, readerVars, decoderVars>>
    /\ \E i \in Procs :
        \/ \E key \in CacheKeys : CacheGet(i, key)
        \/ GetStep(i)

SpecCacheLive ==
    /\ InitCache
    /\ [][NextCacheLive]_vars
    /\ \A i \in Procs : WF_vars(UNCHANGED <<yamlVars, readerVars, decoderVars>> /\ GetStep(i))

\* The guards are held as Get holds them: the read guard only around the
\* look in the map, the write guard only around the insert, neither while
\* the other is held by anyone, and none during the call of the
\* underlying provider.
GuardsHeld ==
    /\ \A i \in Procs :
        /\ i \in rlock <=> gets[i].line \in {"check", "hit", "miss"}
        /\ wlock = i <=> gets[i].line \in {"insert", "unlock"}
    /\ wlock # 0 => rlock = {}

\* Some goroutine inside Get can take a step.
NotStuck ==
    (\E i \in Procs : gets[i].line # "idle") =>
        \E i \in Procs : ENABLED GetStep(i)

\* C28: the guards are held only around the look in the map and the
\* insert and never while the underlying provider is called, the map is
\* not written while it is read or written by another goroutine, some
\* goroutine inside Get can always take a step, and every call of Get
\* returns.
C28_GetTerminates ==
    /\ [](GuardsHeld /\ NotStuck)
    /\ \A i \in Procs : (gets[i].line # "idle") ~> (gets[i].line = "idle")

\* One goroutine holds the write guard and is about to insert while the
\* other waits for the read guard.
C28_Witness ==
    /\ gets[1].line = "insert"
    /\ wlock = 1
    /\ gets[2].line = "rlock"

---------------------------------------------------------------------------
(* SpecDotted: a provider over one or two sources whose top-level mapping  *)
(* holds the nested mapping a: {b: {...}}, the key "a.b" with a period in  *)
(* it, or both; handles are taken with Get(key), key being a string.       *)

\* A key as Get is given it: a string, written as the sequence of its
\* characters.
KeyTexts ==
    {<<>>, <<"a">>, <<"a", ".", "b">>, <<"a", ".", "b", ".", "c">>,
     <<"a", ".", "b", ".", "d">>}

\* The string a sequence of characters spells, for the segments and map
\* keys used here.
Spelt(chars) ==
    IF chars = <<>> THEN ""
    ELSE IF Len(chars) = 1 THEN chars[1]
    ELSE IF chars = <<"a", ".", "b">> THEN "a.b"
    ELSE "?"

\* strings.Split(key, _separator): the pieces of key between its periods;
\* the empty string gives one empty piece.
RECURSIVE SplitFrom(_, _)
SplitFrom(chars, piece) ==
    IF chars = <<>> THEN <<Spelt(piece)>>
    ELSE IF Head(chars) = "."
    THEN <<Spelt(piece)>> \o SplitFrom(Tail(chars), <<>>)
    ELSE SplitFrom(Tail(chars), Append(piece, Head(chars)))

Split(key) == SplitFrom(key, <<>>)

\* v := y.Get(key), key being a string
GetKey(key) ==
    /\ pc = "built"
    /\ v' = get(y, Split(key))
    /\ pc' = "got"
    /\ held' = [held EXCEPT !.path = Split(key)]
    /\ UNCHANGED <<strict, sources, y, err, nread, defaults, target, target2, perr, lookup, cacheVars, readerVars, decoderVars>>

\* What is held under b or "a.b": the keys c and d, each absent or a scalar.
DottedInner ==
    {Mapping(f) : f \in PartialFcns({"c", "d"}, {Scalar("x"), Scalar("y")})}

\* A source: a mapping with a: {b: ...}, with "a.b": ..., or with both.
DottedTrees ==
    {Mapping(f) : f \in
        {g \in PartialFcns({"a", "a.b"},
                           DottedInner \cup {Mapping([k \in {"b"} |-> i]) : i \in DottedInner}) :
            /\ g # EmptyFcn
            /\ "a" \in DOMAIN g => g["a"] \notin DottedInner
            /\ "a.b" \in DOMAIN g => g["a.b"] \in DottedInner}}

InitDotted ==
    /\ pc = "start"
    /\ strict \in BOOLEAN
    /\ sources \in {<<Encode(h)>> : h \in DottedTrees}
    /\ y = NoProvider
    /\ err = "none"
    /\ nread = 0
    /\ v = NoValue
    /\ defaults = <<>>
    /\ target = NoDest
    /\ target2 = NoDest
    /\ perr = <<>>
    /\ lookup = "nil"
    /\ held = NoHeld
    /\ CacheInit
    /\ ReaderInit
    /\ DecoderInit

NextDotted ==
    \/ NewYAML
    \/ \E key \in KeyTexts : GetKey(key)

SpecDotted == InitDotted /\ [][NextDotted]_vars

\* The value the provider holds under the key "a.b" at k, and under the
\* nested mapping a: {b: ...} at k.
UnderDotted(k) == Walk(y.contents, <<"a.b", k>>)

UnderNested(k) == Walk(y.contents, <<"a", "b", k>>)

\* C23: Get("a.b.k") finds the value the key "a.b" holds at k when it
\* holds one, and otherwise the value the nested mapping a: {b: ...}
\* holds at k when it holds one.
C23_DottedKeys ==
    pc = "got" =>
        \A k \in {"c", "d"} :
            (/\ held.path = <<"a", "b", k>>
             /\ {"a", "a.b"} \subseteq DOMAIN y.contents.m) =>
                IF UnderDotted(k).found
                THEN at(v.provider, v.path) = UnderDotted(k)
                ELSE UnderNested(k).found =>
                        at(v.provider, v.path) = UnderNested(k)


---------------------------------------------------------------------------
(* merge is associative over the default and the sources, SpecDefault *)

\* The trees a and b hold values of different categories at some path.
RECURSIVE Differ(_, _)
Differ(a, b) ==
    IF isMapping(a) /\ isMapping(b)
    THEN \E k \in DOMAIN a.m \cap DOMAIN b.m : Differ(a.m[k], b.m[k])
    ELSE a.cat # b.cat

\* The trees merged by v.WithDefault(d): d wrapped under the handle's path,
\* then the sources.
MergedTrees(d) ==
    <<Wrap(v.path, d)>> \o [i \in 1..Len(sources) |-> sources[i].tree]

\* No tree merged holds a Null node and, when the provider is permissive,
\* no two of them hold values of different categories at a path.
Associable(d) ==
    LET ts == MergedTrees(d) IN
    /\ Len(sources) >= 1
    /\ \A i \in 1..Len(ts) : ~HasNull(ts[i])
    /\ ~strict => \A i, j \in 1..Len(ts) : ~Differ(ts[i], ts[j])

\* C29: merge is associative. For sources without a Null node and, in
\* permissive mode, without a category mismatch, v.WithDefault(d), which
\* merges [d, s1, ..., sn] again, gives the tree merge(d, fold(s1..sn)),
\* d being merged beneath the contents the provider already has; in strict
\* mode the one fails exactly when the other does.
C29_MergeAssociative ==
    [][(/\ pc = "got"
        /\ defaults = <<>>
        /\ Len(defaults') = 1
        /\ Associable(defaults'[1]))
       => LET m == merge(Wrap(v.path, defaults'[1]), y.contents, strict) IN
          /\ err' = m.err
          /\ err' = "none" => /\ v'.provider.contents = m.val
                              /\ ~v'.provider.empty]_vars

\* The sources hold {} and then {c: x} at "a", the default {c: z, d: z} is
\* given there, and the handle reads {c: x, d: z}.
C29_Witness ==
    /\ DefaultDone(1)
    /\ ~strict
    /\ sources = <<Encode(Mapping([k \in {"a"} |-> Mapping(EmptyFcn)])),
                   Encode(Mapping([k \in {"a"} |-> Mapping([c \in {"c"} |-> Scalar("x")])]))>>
    /\ v.path = <<"a">>
    /\ defaults[1] = Mapping([k \in {"c", "d"} |-> Scalar("z")])
    /\ v.provider.contents =
        Mapping([k \in {"a"} |->
            Mapping([c \in {"c", "d"} |-> IF c = "c" THEN Scalar("x") ELSE Scalar("z")])])

\* In strict mode the default {c: y} given at "a" meets the scalar x the
\* source holds there, and WithDefault fails.
C29_WitnessStrict ==
    /\ pc = "defaultFailed"
    /\ strict
    /\ sources = <<Encode(Mapping([k \in {"a"} |-> Scalar("x")]))>>
    /\ defaults = <<Mapping([k \in {"c"} |-> Scalar("y")])>>


---------------------------------------------------------------------------
(* The decoder's steps. Value.Populate calls decoder.unmarshal on the      *)
(* destination; unmarshal on a struct runs valueStruct, which calls        *)
(* unmarshal on each field in turn; unmarshal on a pointer runs pointer,   *)
(* which calls unmarshal on what it points to.                             *)

\* The variables the decoder does not use.
notDecoderVars ==
    <<pc, strict, sources, y, err, nread, v, defaults, target, target2, perr,
      lookup, held, cacheVars, readerVars>>

\* The number of calls of valueStruct under way at which the goroutine's
\* stack is exhausted and the program ends with a fatal error; the
\* runtime's limit is far larger.
MaxDepth == 6

\* err := v.Populate(&destination): a decoder with an empty m, and unmarshal
\* of the destination at the handle's key.
ValuePopulate ==
    /\ dpc = "idle"
    /\ dpc' = "running"
    /\ dm' = {}
    /\ UNCHANGED <<prov, dtype, dval, heap, stack, call, derr>>

\* decoder.unmarshal of a destination that holds no pointer: the whole
\* call, after which Populate returns.
UnmarshalPlain ==
    /\ dpc = "running"
    /\ call.kind = "plain"
    /\ \E r \in (IF Kind(dtype) = "map"
                 THEN mapping(prov, call.name, dtype, dval, "")
                 ELSE {unmarshalValue(prov, call.name, dtype, dval, "")}) :
        /\ dval' = r.val
        /\ derr' = r.err
    /\ call' = NoCall
    /\ dpc' = "done"
    /\ UNCHANGED <<prov, dtype, heap, dm, stack>>

\* decoder.unmarshal of a struct: checkCycles adds the struct to m, and
\* object calls valueStruct, which starts at the first field. With no stack
\* left for the call the program ends.
UnmarshalStruct ==
    /\ dpc = "running"
    /\ call.kind = "struct"
    /\ dm' = checkCycles(dm, StructOf(heap[call.addr])).m
    /\ IF Len(stack) < MaxDepth
       THEN /\ stack' = Append(stack, [addr |-> call.addr, key |-> call.name, i |-> 1])
            /\ call' = NoCall
            /\ UNCHANGED dpc
       ELSE /\ dpc' = "overflow"
            /\ UNCHANGED <<stack, call>>
    /\ UNCHANGED <<prov, dtype, dval, heap, derr>>

\* valueStruct, the body of its loop: unmarshal of the next field under the
\* struct's key followed by the field's name.
ValueStructField ==
    /\ dpc = "running"
    /\ call = NoCall
    /\ stack # <<>>
    /\ LET top == stack[Len(stack)] IN
        /\ top.i <= Len(Fields)
        /\ call' = UnmarshalCall(Append(top.key, Fields[top.i]), "ptr",
                                 top.addr, Fields[top.i])
    /\ stack' = [stack EXCEPT ![Len(stack)].i = @ + 1]
    /\ UNCHANGED <<prov, dtype, dval, heap, dm, derr, dpc>>

\* decoder.unmarshal of a pointer. A cycle found by checkCycles is wrapped
\* with the key and returned by every call under way, so Populate returns
\* it. Otherwise pointer returns nil when the provider has no value at the
\* key, and else allocates a node if the pointer is nil and calls
\* unmarshal on the node pointed to.
UnmarshalPtr ==
    /\ dpc = "running"
    /\ call.kind = "ptr"
    /\ LET ptr == heap[call.addr][call.field]
           c == checkCycles(dm, PtrTo(ptr))
           new == Cardinality(DOMAIN heap) + 1
       IN  IF c.err # NoError
           THEN /\ derr' = errorWithKey(c.err, call.name)
                /\ dpc' = "done"
                /\ stack' = <<>>
                /\ call' = NoCall
                /\ UNCHANGED <<heap, dm>>
           ELSE /\ dm' = c.m
                /\ UNCHANGED <<derr, dpc, stack>>
                /\ IF ~ProviderGet(prov, call.name).found
                   THEN call' = NoCall /\ UNCHANGED heap
                   ELSE IF ptr = 0
                   THEN /\ heap' = [a \in DOMAIN heap \cup {new} |->
                                      IF a = new THEN [A |-> 0, B |-> 0]
                                      ELSE IF a = call.addr
                                      THEN [heap[a] EXCEPT ![call.field] = new]
                                      ELSE heap[a]]
                        /\ call' = UnmarshalCall(call.name, "struct", new, "")
                   ELSE /\ call' = UnmarshalCall(call.name, "struct", ptr, "")
                        /\ UNCHANGED heap
    /\ UNCHANGED <<prov, dtype, dval>>

\* valueStruct returns after the last field: the validator has nothing to
\* check, so it returns nil; the outermost call's return is Populate's.
ValueStructReturn ==
    /\ dpc = "running"
    /\ call = NoCall
    /\ stack # <<>>
    /\ stack[Len(stack)].i > Len(Fields)
    /\ stack' = SubSeq(stack, 1, Len(stack) - 1)
    /\ dpc' = IF Len(stack) = 1 THEN "done" ELSE dpc
    /\ UNCHANGED <<prov, dtype, dval, heap, dm, call, derr>>

\* The YAML provider, the cached provider and the expander are not used.
NotDecoderInit ==
    /\ pc = "start"
    /\ strict = TRUE
    /\ sources = <<>>
    /\ y = NoProvider
    /\ err = "none"
    /\ nread = 0
    /\ v = NoValue
    /\ defaults = <<>>
    /\ target = NoDest
    /\ target2 = NoDest
    /\ perr = <<>>
    /\ lookup = "nil"
    /\ held = NoHeld
    /\ CacheInit
    /\ ReaderInit

---------------------------------------------------------------------------
(* SpecDecode: Populate of a slice, a map or an int at the key a, from a   *)
(* provider that holds a value at a and values at some of a.1, a.3, a.5.   *)

\* The longest slice of ints a provider holds at a.
MaxNative == 3

\* The slices [0, 1, ..., n-1].
IntSlices == {GoSlice([i \in 1..n |-> GoInt(i - 1)]) : n \in 0..MaxNative}

\* What a provider holds at a: nothing, nil, a slice of ints, a slice with
\* a string that is no number, a slice of slices, a slice of a slice and an
\* int, a map of ints, a map with a string that is no number, a map of
\* slices, a map of a slice and an int, or a string.
Natives ==
    {NotFound, NewValue(GoNil, TRUE)}
    \cup {NewValue(s, TRUE) : s \in IntSlices}
    \cup {NewValue(GoSlice(<<GoInt(0), GoString("x")>>), TRUE),
          NewValue(GoSlice(<<GoSlice(<<GoInt(0)>>), GoSlice(<<GoInt(1), GoInt(2)>>)>>), TRUE),
          NewValue(GoSlice(<<GoSlice(<<GoInt(0)>>), GoInt(1)>>), TRUE),
          NewValue(GoMap([k \in {"k", "l"} |-> IF k = "k" THEN GoInt(1) ELSE GoString("2")]), TRUE),
          NewValue(GoMap([k \in {"k", "l"} |-> IF k = "k" THEN GoInt(1) ELSE GoString("x")]), TRUE),
          NewValue(GoMap([k \in {"k"} |-> GoSlice(<<GoInt(0), GoInt(1)>>)]), TRUE),
          NewValue(GoMap([k \in {"k", "l"} |-> IF k = "k" THEN GoSlice(<<GoInt(0)>>) ELSE GoInt(5)]), TRUE),
          NewValue(GoString("7"), TRUE)}

\* The values a provider holds at the keys a.1, a.3 and a.5: at each, none,
\* nil, an int or a string that is no number.
Overrides == PartialFcns({"1", "3", "5"}, {GoNil, GoInt(3), GoString("x")})

\* What the destination holds before the call: the zero value of its type
\* or a value set earlier.
Before(t) ==
    IF t = "int" THEN {0, 9}
    ELSE IF t = "[]int" THEN {reflectZero(t), SliceVal(FALSE, <<9>>)}
    ELSE IF t = "[][]int"
    THEN {reflectZero(t), SliceVal(FALSE, <<SliceVal(FALSE, <<9>>)>>)}
    ELSE IF t = "map[string]int"
    THEN {reflectZero(t), MapVal(FALSE, [k \in {"z"} |-> 9])}
    ELSE {reflectZero(t), MapVal(FALSE, [k \in {"z"} |-> SliceVal(FALSE, <<9>>)])}

InitDecode ==
    /\ NotDecoderInit
    /\ \E native \in Natives, over \in Overrides :
        prov = OldProvider(FALSE, {}, native, over)
    /\ dtype \in PlainTypes
    /\ dval \in Before(dtype)
    /\ heap = <<>>
    /\ dm = {}
    /\ stack = <<>>
    /\ call = UnmarshalCall(NativeKey, "plain", 0, "")
    /\ derr = NoError
    /\ dpc = "idle"

NextDecode ==
    /\ UNCHANGED notDecoderVars
    /\ \/ ValuePopulate
       \/ UnmarshalPlain

SpecDecode == InitDecode /\ [][NextDecode]_vars

---------------------------------------------------------------------------
(* SpecGraph: Populate of a node struct { A, B *node } at the root key,    *)
(* from a provider that has a value at every key or at a few.              *)

\* The nodes there are before the call; the destination is node 1.
Objects == {1, 2}

\* The sets of keys at which a provider has a value.
GraphKeys ==
    {{},
     {<<"A">>},
     {<<"B">>},
     {<<"A">>, <<"B">>},
     {<<"A">>, <<"A", "A">>},
     {<<"A">>, <<"B">>, <<"A", "A">>, <<"A", "B">>, <<"B", "A">>, <<"B", "B">>}}

InitGraph ==
    /\ NotDecoderInit
    /\ \/ prov = OldProvider(TRUE, {}, NotFound, <<>>)
       \/ \E keys \in GraphKeys : prov = OldProvider(FALSE, keys, NotFound, <<>>)
    /\ dtype = "node"
    /\ dval = 0
    /\ heap \in [Objects -> [A : Objects \cup {0}, B : Objects \cup {0}]]
    /\ dm = {}
    /\ stack = <<>>
    /\ call = UnmarshalCall(<<>>, "struct", 1, "")
    /\ derr = NoError
    /\ dpc = "idle"

NextGraph ==
    /\ UNCHANGED notDecoderVars
    /\ \/ ValuePopulate
       \/ UnmarshalStruct
       \/ ValueStructField
       \/ UnmarshalPtr
       \/ ValueStructReturn

\* The decoder runs in the caller's goroutine: a step that can be taken is
\* taken.
SpecGraph == InitGraph /\ [][NextGraph]_vars /\ WF_vars(NextGraph)


---------------------------------------------------------------------------
(* Claims about slices and maps, checked under SpecDecode *)

\* The provider's own slice at a, empty when it holds none.
Native == IF prov.native.value.go = "slice" THEN prov.native.value.es ELSE <<>>

\* The provider holds at a.i a value of its own that is not nil: an
\* override.
HasOverride(i) == Itoa(i) \in DOMAIN prov.over /\ prov.over[Itoa(i)] # GoNil

\* Populate of a []int has returned nil, and the provider holds at a
\* nothing, nil or a slice of ints.
SliceDone ==
    /\ dpc = "done"
    /\ derr = NoError
    /\ dtype = "[]int"
    /\ prov.native.value = GoNil \/ prov.native.value \in IntSlices

\* C21: a value at p.i supersedes the element i of the provider's own
\* sequence, a value that is not null at the index len(native) extends the
\* result by one element, and a null at an index inside the native length
\* leaves that element at the zero value: [0, 1, 2] with p.1 = 3 gives
\* [0, 3, 2], with p.3 = 3 gives [0, 1, 2, 3], with p.1 = null gives
\* [0, 0, 2].
C21_IndexOverrides ==
    SliceDone =>
        /\ Native # <<>> => Len(dval.elems) >= Len(Native)
        /\ \A i \in 0..(Len(Native) - 1) :
            IF Itoa(i) \notin DOMAIN prov.over
            THEN dval.elems[i + 1] = Native[i + 1].n
            ELSE IF prov.over[Itoa(i)] = GoNil
            THEN dval.elems[i + 1] = 0
            ELSE dval.elems[i + 1] = prov.over[Itoa(i)].n
        /\ HasOverride(Len(Native)) =>
            /\ Len(dval.elems) >= Len(Native) + 1
            /\ dval.elems[Len(Native) + 1] = prov.over[Itoa(Len(Native))].n

\* [0, 1, 2] with a.1 = null and a.3 = 3 has given [0, 0, 2, 3].
C21_Witness ==
    /\ SliceDone
    /\ prov.native.value = GoSlice(<<GoInt(0), GoInt(1), GoInt(2)>>)
    /\ prov.over = [k \in {"1", "3"} |-> IF k = "1" THEN GoNil ELSE GoInt(3)]
    /\ dval = SliceVal(FALSE, <<0, 0, 2, 3>>)

\* [0, 1, 2] with a.1 = 3 has given [0, 3, 2].
C21_WitnessInside ==
    /\ SliceDone
    /\ prov.native.value = GoSlice(<<GoInt(0), GoInt(1), GoInt(2)>>)
    /\ prov.over = [k \in {"1"} |-> GoInt(3)]
    /\ dval = SliceVal(FALSE, <<0, 3, 2>>)

\* The least index from len(native) on at which the provider has no
\* override.
LogicalLength ==
    CHOOSE l \in Len(Native)..(Len(Digits) - 1) :
        /\ ~HasOverride(l)
        /\ \A j \in Len(Native)..(l - 1) : HasOverride(j)

\* C27: the length of a populated sequence is the least index
\* i >= len(native) at which p.i has no value that is not null; an
\* override after that index is ignored and does not extend the result.
\* With length 0 the destination is left as it was.
C27_LogicalLength ==
    SliceDone =>
        IF LogicalLength = 0 THEN dval \in Before(dtype)
        ELSE /\ ~dval.isNil
             /\ Len(dval.elems) = LogicalLength

\* [0, 1, 2] with a.5 = 3 and nothing at a.3 and a.4 has given [0, 1, 2].
C27_Witness ==
    /\ SliceDone
    /\ prov.native.value = GoSlice(<<GoInt(0), GoInt(1), GoInt(2)>>)
    /\ prov.over = [k \in {"5"} |-> GoInt(3)]
    /\ dval = SliceVal(FALSE, <<0, 1, 2>>)

\* C30: when Populate into a slice or a map returns an error, the
\* destination holds what it held before the call: what was decoded is
\* assigned only after every element has been decoded.
C30_AllOrNothing ==
    [][(/\ dpc = "running"
        /\ dpc' = "done"
        /\ Kind(dtype) \in {"slice", "map"}
        /\ derr' # NoError)
       => dval' = dval]_vars

\* Populate of a []int that held [9], from [0, "x"]: the element 0 was
\* decoded, the element 1 failed, and the destination still holds [9].
C30_Witness ==
    /\ dpc = "done"
    /\ dtype = "[]int"
    /\ prov.native.value = GoSlice(<<GoInt(0), GoString("x")>>)
    /\ prov.over = <<>>
    /\ derr = [kind |-> "convert", keys |-> <<<<"a", "1">>>>]
    /\ dval = SliceVal(FALSE, <<9>>)

\* Populate of a map[string]int that held {z: 9}, from {k: 1, l: "x"}.
C30_WitnessMap ==
    /\ dpc = "done"
    /\ dtype = "map[string]int"
    /\ derr = [kind |-> "convert", keys |-> <<<<"a", "l">>>>]
    /\ dval = MapVal(FALSE, [k \in {"z"} |-> 9])

\* C26: every error Populate returns from a nested decoding step is wrapped
\* with the key of the value that failed.
C26_ErrorsWrapped ==
    dpc = "done" /\ derr # NoError => derr.keys # <<>>

---------------------------------------------------------------------------
(* Claims about cycles, checked under SpecGraph *)

\* The nodes the pointers of node a point to.
Succ(a) == {heap[a].A, heap[a].B} \ {0}

\* The nodes reached from the nodes of S.
RECURSIVE Closure(_)
Closure(S) ==
    IF UNION {Succ(a) : a \in S} \subseteq S THEN S
    ELSE Closure(S \cup UNION {Succ(a) : a \in S})

\* The destination is self-referential: a pointer reached from it is
\* reached again from the node it points to.
SelfReferential ==
    \E a \in Closure(Succ(1)) : a \in Closure(Succ(a))

\* C22: Populate into a self-referential destination always terminates and
\* returns a Cycle error that names the key, whatever the provider
\* returns; the decoder never recurses until the stack is exhausted.
C22_CycleDetected ==
    SelfReferential =>
        <>(dpc = "done" /\ derr.kind = "cycle" /\ derr.keys # <<>>)

\* C25: cycle detection tracks only the handles on the current descent
\* path: a destination that is not self-referential, such as one in which
\* two fields hold the same pointer, is populated without a Cycle error.
C25_OnlyAncestors ==
    dpc = "done" /\ ~SelfReferential => derr.kind # "cycle"


====
